---- MODULE Spec2Model ----
(***************************************************************************)
(* Life Calendar wallpaper generator: the lock file of the engine          *)
(* (wallpaper_engine.py acquire_lock / release_lock / run_auto), the       *)
(* atomic save of the rendered image (WallpaperRenderer.save), the JSON    *)
(* configuration file (LifeCalendarGUI.save_config, WallpaperEngine        *)
(* .load_config) and the calendar calculations (LifeCalendarData).         *)
(*                                                                         *)
(* Files follow POSIX semantics: a name refers to an inode, unlink and     *)
(* rename act on names, an open descriptor keeps writing to its inode.     *)
(***************************************************************************)
EXTENDS Integers, Sequences, FiniteSets, TLC

(***************************************************************************)
(* Bounds of the model.                                                    *)
(***************************************************************************)
\* Threads of control that call run_auto. Thread 1 is a worker thread of the
\* GUI process (life_calendar_gui.py:89, :215); thread 2 is either a second
\* worker thread of the same process or a scheduled auto_update process; every
\* further thread is a process of its own.
NThreads == 2

\* The process ids: FirstPid is the pid of an earlier engine process that has
\* terminated, the live processes have the pids after it.
FirstPid == 9

\* Calls of WallpaperRenderer.save, and the chunks an image is written in.
NWriters == 2

NChunks == 2

\* Documents the GUI saves, and the chunks a document is written in.
MaxSaves == 2

NCfgChunks == 2

\* The largest number of units a grid is laid out for, and the largest number
\* of cells a grid is drawn with.
MaxUnits == 8000

MaxCells == 8

\* The years the dates are taken from: FirstYear .. FirstYear + NYears - 1.
FirstYear == 2023

NYears == 2

VARIABLES
    \* ---- lock file and run_auto ----
    sameProc,   \* threads 1 and 2 belong to one process
    pc,         \* position of every thread inside run_auto
    lock,       \* the marker file .life_calendar.lock
    alive,      \* which processes are running (by pid)
    oldPid,     \* acquire_lock's local old_pid
    seen,       \* what acquire_lock read: none, vanished, corrupt, live, stale
    raced,      \* another thread changed the marker during this acquire_lock
    acqErr,     \* acquire_lock raised RuntimeError: none, live, exists
    acquired,   \* acquire_lock returned normally
    attempts,   \* calls of acquire_lock made by the run
    genRan,     \* generate_wallpaper was called
    applyRan,   \* set_wallpaper was called
    wrote,      \* the run replaced the wallpaper file by its image
    released,   \* release_lock completed
    ret         \* outcome of run_auto: none, true, false, raised

lockVars == <<sameProc, pc, lock, alive, oldPid, seen, raced, acqErr, acquired,
              attempts, genRan, applyRan, wrote, released, ret>>

VARIABLES
    \* ---- the wallpaper image file and WallpaperRenderer.save ----
    spc,        \* position of every writer inside save
    tmpIno,     \* the inode that the name path + ".tmp" refers to (0: none)
    destIno,    \* the inode that the name path refers to (0: none)
    data,       \* the content of every inode, a sequence of chunks
    fd,         \* the inode each writer has open
    pos,        \* chunks the writer has written
    destBefore, \* the destination as it was when save was called
    failed,     \* a step of the call failed
    outcome,    \* how save ended: none, returned, raised
    observed    \* what a reader of the wallpaper file last read

saveVars == <<spc, tmpIno, destIno, data, fd, pos, destBefore, failed, outcome,
              observed>>

VARIABLES
    \* ---- the configuration file: save_config and load_config ----
    gpc,        \* position of the GUI inside save_config
    gver,       \* the number of the document the GUI saves (0: the one on disk)
    gpos,       \* chunks of the document written so far
    cfgFile,    \* life_calendar_config.json
    bakFile,    \* life_calendar_config.json.bak
    rpc,        \* position of the engine inside load_config
    loaded      \* what the last load_config answered

cfgVars == <<gpc, gver, gpos, cfgFile, bakFile, rpc, loaded>>

VARIABLES
    \* ---- the calendar calculations ----
    calcIn,     \* the configured values and the current date
    calcOut     \* what the CalendarData object answered

calcVars == <<calcIn, calcOut>>

VARIABLES
    \* ---- the grid: GridLayout and draw_grid ----
    gridIn,     \* the mode, the units and the canvas
    gridOut     \* the layout computed and the cells drawn

gridVars == <<gridIn, gridOut>>

VARIABLES
    \* ---- one unattended run: auto_update.main ----
    runIn,      \* what the run finds: the configuration, the date, the desktop
    mpc,        \* position of the run
    wallFile,   \* life_calendar_wallpaper.png
    wallTmp,    \* life_calendar_wallpaper.png.tmp is present
    errFiles,   \* the ERROR_*.txt files present
    run         \* what the run did and answered

mainVars == <<runIn, mpc, wallFile, wallTmp, errFiles, run>>

VARIABLES
    \* ---- the GUI: its entries, its configuration and the file it saves ----
    uiIn,       \* what the user entered, the configuration before, the date
    uiOut       \* what the GUI made of it

uiVars == <<uiIn, uiOut>>

nonLockVars == <<saveVars, cfgVars, calcVars, gridVars, mainVars, uiVars>>

nonSaveVars == <<lockVars, cfgVars, calcVars, gridVars, mainVars, uiVars>>

nonCfgVars == <<lockVars, saveVars, calcVars, gridVars, mainVars, uiVars>>

nonCalcVars == <<lockVars, saveVars, cfgVars, gridVars, mainVars, uiVars>>

nonGridVars == <<lockVars, saveVars, cfgVars, calcVars, mainVars, uiVars>>

nonMainVars == <<lockVars, saveVars, cfgVars, calcVars, gridVars, uiVars>>

nonUiVars == <<lockVars, saveVars, cfgVars, calcVars, gridVars, mainVars>>

vars == <<lockVars, saveVars, cfgVars, calcVars, gridVars, mainVars, uiVars>>

(***************************************************************************)
(* Text of the marker: str(os.getpid()) and int(f.read().strip()).         *)
(***************************************************************************)
Digits == <<"0", "1", "2", "3", "4", "5", "6", "7", "8", "9">>

IsDigit(c) == \E i \in 1..Len(Digits) : Digits[i] = c

DigitVal(c) == (CHOOSE i \in 1..Len(Digits) : Digits[i] = c) - 1

IsSpace(c) == c \in {" ", "\n"}

\* str(n) for n >= 0
RECURSIVE DecStr(_)
DecStr(n) ==
    IF n < 10 THEN <<Digits[n + 1]>>
    ELSE DecStr(n \div 10) \o <<Digits[(n % 10) + 1]>>

\* str.strip(): leading and trailing white space removed
RECURSIVE Strip(_)
Strip(s) ==
    IF s = <<>> THEN s
    ELSE IF IsSpace(Head(s)) THEN Strip(Tail(s))
    ELSE IF IsSpace(s[Len(s)]) THEN Strip(SubSeq(s, 1, Len(s) - 1))
    ELSE s

RECURSIVE DigitsVal(_)
DigitsVal(s) ==
    IF s = <<>> THEN 0
    ELSE 10 * DigitsVal(SubSeq(s, 1, Len(s) - 1)) + DigitVal(s[Len(s)])

\* int(): the result for a ValueError
ValueError == -1

ParsePid(s) ==
    LET t == Strip(s) IN
    IF t = <<>> \/ (\E i \in 1..Len(t) : ~IsDigit(t[i])) THEN ValueError
    ELSE DigitsVal(t)

(***************************************************************************)
(* Threads, processes and the marker file.                                 *)
(***************************************************************************)
Threads == 1..NThreads

StalePid == FirstPid

\* os.getpid() of the process a thread belongs to
PidOf(t) == IF t = 2 /\ sameProc THEN FirstPid + 1 ELSE FirstPid + t

Pids == FirstPid..(FirstPid + NThreads)

NoFile == [exists |-> FALSE, creator |-> 0, content |-> <<>>]

File(c, s) == [exists |-> TRUE, creator |-> c, content |-> s]

\* the marker a thread leaves when its acquire_lock has written its pid
OwnMarker(t) == File(t, DecStr(PidOf(t)))

\* _is_process_running(pid)
IsProcessRunningNever(pid) == FALSE

IsProcessRunning(pid) == pid \in DOMAIN alive /\ alive[pid]

AcquirePcs == {"a_exists", "a_read", "a_alive", "a_rmstale", "a_rmcorrupt",
               "a_create", "a_write", "a_close"}

\* the threads whose acquire_lock is under way while thread t changes the marker
Raced(t) ==
    [u \in Threads |-> raced[u] \/ (u # t /\ pc[u] \in AcquirePcs /\ lock' # lock)]

\* run_auto's finally clause: every exit of the try block goes through
\* release_lock
FinallyTargetSkip == "done"

FinallyTarget == "r_exists"

\* where run_auto goes when acquire_lock raises: the except clause returns
\* False, through the finally clause
AcquireFailedTargetGoOn == "generate"

AcquireFailedTarget == FinallyTarget

(***************************************************************************)
(* run_auto, step by step.                                                 *)
(***************************************************************************)
RunAuto(t) ==
    /\ UNCHANGED nonLockVars
    /\ pc[t] = "idle"
    /\ alive[PidOf(t)]
    /\ pc' = [pc EXCEPT ![t] = "a_exists"]
    /\ attempts' = [attempts EXCEPT ![t] = @ + 1]
    /\ UNCHANGED <<sameProc, lock, alive, oldPid, seen, raced, acqErr, acquired,
                   genRan, applyRan, wrote, released, ret>>

\* acquire_lock: os.path.exists(LOCK_FILE)
AcqExists(t) ==
    /\ UNCHANGED nonLockVars
    /\ pc[t] = "a_exists"
    /\ pc' = [pc EXCEPT ![t] = IF lock.exists THEN "a_read" ELSE "a_create"]
    /\ UNCHANGED <<sameProc, lock, alive, oldPid, seen, raced, acqErr, acquired,
                   attempts, genRan, applyRan, wrote, released, ret>>

\* acquire_lock: old_pid = int(f.read().strip())
AcqRead(t) ==
    /\ UNCHANGED nonLockVars
    /\ pc[t] = "a_read"
    /\ IF ~lock.exists
         THEN \* FileNotFoundError, an IOError
              /\ seen' = [seen EXCEPT ![t] = "vanished"]
              /\ pc' = [pc EXCEPT ![t] = "a_rmcorrupt"]
              /\ UNCHANGED oldPid
         ELSE IF ParsePid(lock.content) = ValueError
         THEN /\ seen' = [seen EXCEPT ![t] = "corrupt"]
              /\ pc' = [pc EXCEPT ![t] = "a_rmcorrupt"]
              /\ UNCHANGED oldPid
         ELSE /\ oldPid' = [oldPid EXCEPT ![t] = ParsePid(lock.content)]
              /\ pc' = [pc EXCEPT ![t] = "a_alive"]
              /\ UNCHANGED seen
    /\ UNCHANGED <<sameProc, lock, alive, raced, acqErr, acquired,
                   attempts, genRan, applyRan, wrote, released, ret>>

\* acquire_lock: if _is_process_running(old_pid): raise RuntimeError.
\* seen records whether the process was in fact running.
AcqAlive(t) ==
    /\ UNCHANGED nonLockVars
    /\ pc[t] = "a_alive"
    /\ seen' = [seen EXCEPT ![t] = IF alive[oldPid[t]] THEN "live" ELSE "stale"]
    /\ IF IsProcessRunning(oldPid[t])
         THEN /\ acqErr' = [acqErr EXCEPT ![t] = "live"]
              /\ ret' = [ret EXCEPT ![t] = "false"]
              /\ pc' = [pc EXCEPT ![t] = AcquireFailedTarget]
              /\ UNCHANGED oldPid
         ELSE /\ pc' = [pc EXCEPT ![t] = "a_rmstale"]
              /\ oldPid' = [oldPid EXCEPT ![t] = 0]
              /\ UNCHANGED <<acqErr, ret>>
    /\ UNCHANGED <<sameProc, lock, alive, raced, acquired,
                   attempts, genRan, applyRan, wrote, released>>

\* the marker after os.remove(LOCK_FILE) of a stale marker
StaleRemovedKept(f) == f

StaleRemoved(f) == NoFile

\* acquire_lock: os.remove(LOCK_FILE) of the stale marker; a missing file is a
\* FileNotFoundError, caught by except (ValueError, IOError)
AcqRemoveStale(t) ==
    /\ UNCHANGED nonLockVars
    /\ pc[t] = "a_rmstale"
    /\ IF lock.exists
         THEN /\ lock' = StaleRemoved(lock)
              /\ pc' = [pc EXCEPT ![t] = "a_create"]
         ELSE /\ lock' = lock
              /\ pc' = [pc EXCEPT ![t] = "a_rmcorrupt"]
    /\ raced' = Raced(t)
    /\ UNCHANGED <<sameProc, alive, oldPid, seen, acqErr, acquired,
                   attempts, genRan, applyRan, wrote, released, ret>>

\* the marker after os.remove(LOCK_FILE) of a corrupted marker
CorruptRemovedKept(f) == f

CorruptRemoved(f) == NoFile

\* acquire_lock: the except branch, os.remove(LOCK_FILE) with OSError ignored
AcqRemoveCorrupt(t) ==
    /\ UNCHANGED nonLockVars
    /\ pc[t] = "a_rmcorrupt"
    /\ lock' = IF lock.exists THEN CorruptRemoved(lock) ELSE lock
    /\ pc' = [pc EXCEPT ![t] = "a_create"]
    /\ raced' = Raced(t)
    /\ UNCHANGED <<sameProc, alive, oldPid, seen, acqErr, acquired,
                   attempts, genRan, applyRan, wrote, released, ret>>

\* acquire_lock: os.open(LOCK_FILE, O_CREAT | O_EXCL | O_WRONLY)
AcqCreate(t) ==
    /\ UNCHANGED nonLockVars
    /\ pc[t] = "a_create"
    /\ IF lock.exists
         THEN \* FileExistsError, raised again as RuntimeError
              /\ acqErr' = [acqErr EXCEPT ![t] = "exists"]
              /\ ret' = [ret EXCEPT ![t] = "false"]
              /\ pc' = [pc EXCEPT ![t] = AcquireFailedTarget]
              /\ seen' = [seen EXCEPT ![t] = "none"]
              /\ raced' = [raced EXCEPT ![t] = FALSE]
              /\ lock' = lock
         ELSE /\ lock' = File(t, <<>>)
              /\ pc' = [pc EXCEPT ![t] = "a_write"]
              /\ raced' = Raced(t)
              /\ UNCHANGED <<acqErr, ret, seen>>
    /\ UNCHANGED <<sameProc, alive, oldPid, acquired,
                   attempts, genRan, applyRan, wrote, released>>

\* acquire_lock: os.write(fd, str(os.getpid()).encode()). The descriptor
\* writes to the inode the thread created, which is the marker only while
\* nobody has removed it.
AcqWrite(t) ==
    /\ UNCHANGED nonLockVars
    /\ pc[t] = "a_write"
    /\ lock' = IF lock.exists /\ lock.creator = t THEN OwnMarker(t) ELSE lock
    /\ pc' = [pc EXCEPT ![t] = "a_close"]
    /\ raced' = Raced(t)
    /\ UNCHANGED <<sameProc, alive, oldPid, seen, acqErr, acquired,
                   attempts, genRan, applyRan, wrote, released, ret>>

\* acquire_lock: os.close(fd) and the return to run_auto
AcqClose(t) ==
    /\ UNCHANGED nonLockVars
    /\ pc[t] = "a_close"
    /\ acquired' = [acquired EXCEPT ![t] = TRUE]
    /\ seen' = [seen EXCEPT ![t] = "none"]
    /\ raced' = [raced EXCEPT ![t] = FALSE]
    /\ pc' = [pc EXCEPT ![t] = "generate"]
    /\ UNCHANGED <<sameProc, lock, alive, oldPid, acqErr,
                   attempts, genRan, applyRan, wrote, released, ret>>

\* run_auto: success, message = self.generate_wallpaper(). The call catches
\* every exception and answers (False, ...); on success the image file holds
\* the new image.
Generate(t) ==
    /\ UNCHANGED nonLockVars
    /\ pc[t] = "generate"
    /\ genRan' = [genRan EXCEPT ![t] = TRUE]
    /\ \E ok \in BOOLEAN :
         IF ok
           THEN /\ wrote' = [wrote EXCEPT ![t] = TRUE]
                /\ pc' = [pc EXCEPT ![t] = "apply"]
                /\ UNCHANGED ret
           ELSE /\ ret' = [ret EXCEPT ![t] = "false"]
                /\ pc' = [pc EXCEPT ![t] = FinallyTarget]
                /\ UNCHANGED wrote
    /\ UNCHANGED <<sameProc, lock, alive, oldPid, seen, raced, acqErr, acquired,
                   attempts, applyRan, released>>

\* run_auto: success, message = self.set_wallpaper()
Apply(t) ==
    /\ UNCHANGED nonLockVars
    /\ pc[t] = "apply"
    /\ applyRan' = [applyRan EXCEPT ![t] = TRUE]
    /\ \E ok \in BOOLEAN :
         ret' = [ret EXCEPT ![t] = IF ok THEN "true" ELSE "false"]
    /\ pc' = [pc EXCEPT ![t] = FinallyTarget]
    /\ UNCHANGED <<sameProc, lock, alive, oldPid, seen, raced, acqErr, acquired,
                   attempts, genRan, wrote, released>>

\* release_lock: if os.path.exists(LOCK_FILE)
RelExists(t) ==
    /\ UNCHANGED nonLockVars
    /\ pc[t] = "r_exists"
    /\ IF lock.exists
         THEN pc' = [pc EXCEPT ![t] = "r_remove"] /\ UNCHANGED released
         ELSE /\ pc' = [pc EXCEPT ![t] = "done"]
              /\ released' = [released EXCEPT ![t] = TRUE]
    /\ UNCHANGED <<sameProc, lock, alive, oldPid, seen, raced, acqErr, acquired,
                   attempts, genRan, applyRan, wrote, ret>>

\* what release_lock lets out of its try block: except Exception: pass
ReleaseOutcomeUncaught(err) == err

ReleaseOutcome(err) == "none"

\* release_lock: os.remove(LOCK_FILE); a missing file is a FileNotFoundError
RelRemove(t) ==
    /\ UNCHANGED nonLockVars
    /\ pc[t] = "r_remove"
    /\ lock' = NoFile
    /\ released' = [released EXCEPT ![t] = TRUE]
    /\ LET err == IF lock.exists THEN "none" ELSE "FileNotFoundError" IN
       ret' = [ret EXCEPT ![t] = IF ReleaseOutcome(err) = "none" THEN @ ELSE "raised"]
    /\ pc' = [pc EXCEPT ![t] = "done"]
    /\ raced' = Raced(t)
    /\ UNCHANGED <<sameProc, alive, oldPid, seen, acqErr, acquired,
                   attempts, genRan, applyRan, wrote>>

\* preview_wallpaper of the GUI: the configuration is saved and an engine is
\* constructed; acquire_lock is not called
PreviewWallpaper(t) ==
    /\ UNCHANGED nonLockVars
    /\ pc[t] = "idle"
    /\ alive[PidOf(t)]
    /\ pc' = [pc EXCEPT ![t] = "preview"]
    /\ attempts' = [attempts EXCEPT ![t] = @ + 1]
    /\ UNCHANGED <<sameProc, lock, alive, oldPid, seen, raced, acqErr, acquired,
                   genRan, applyRan, wrote, released, ret>>

\* preview_wallpaper: success, message = engine.generate_wallpaper(); on
\* success the image file holds the new image, and the preview returns
PreviewGenerate(t) ==
    /\ UNCHANGED nonLockVars
    /\ pc[t] = "preview"
    /\ genRan' = [genRan EXCEPT ![t] = TRUE]
    /\ \E ok \in BOOLEAN : wrote' = [wrote EXCEPT ![t] = ok]
    /\ pc' = [pc EXCEPT ![t] = "done"]
    /\ UNCHANGED <<sameProc, lock, alive, oldPid, seen, raced, acqErr, acquired,
                   attempts, applyRan, released, ret>>

\* A process is killed while one of its threads has created the marker and not
\* yet called release_lock. (A process killed at another point has its pid in no
\* marker: to the others it is a process that takes no further step.) What the
\* killed threads knew is gone with them.
Crash(p) ==
    /\ UNCHANGED nonLockVars
    /\ alive[p]
    /\ \E t \in Threads :
         PidOf(t) = p /\ pc[t] \in {"a_write", "a_close", "generate", "apply"}
    /\ alive' = [alive EXCEPT ![p] = FALSE]
    /\ pc' = [t \in Threads |-> IF PidOf(t) = p THEN "crashed" ELSE pc[t]]
    /\ oldPid' = [t \in Threads |-> IF PidOf(t) = p THEN 0 ELSE oldPid[t]]
    /\ seen' = [t \in Threads |-> IF PidOf(t) = p THEN "none" ELSE seen[t]]
    /\ raced' = [t \in Threads |-> IF PidOf(t) = p THEN FALSE ELSE raced[t]]
    /\ acqErr' = [t \in Threads |-> IF PidOf(t) = p THEN "none" ELSE acqErr[t]]
    /\ acquired' = [t \in Threads |-> IF PidOf(t) = p THEN FALSE ELSE acquired[t]]
    /\ attempts' = [t \in Threads |-> IF PidOf(t) = p THEN 0 ELSE attempts[t]]
    /\ genRan' = [t \in Threads |-> IF PidOf(t) = p THEN FALSE ELSE genRan[t]]
    /\ applyRan' = [t \in Threads |-> IF PidOf(t) = p THEN FALSE ELSE applyRan[t]]
    /\ wrote' = [t \in Threads |-> IF PidOf(t) = p THEN FALSE ELSE wrote[t]]
    /\ released' = [t \in Threads |-> IF PidOf(t) = p THEN FALSE ELSE released[t]]
    /\ ret' = [t \in Threads |-> IF PidOf(t) = p THEN "none" ELSE ret[t]]
    /\ UNCHANGED <<sameProc, lock>>


(***************************************************************************)
(* The wallpaper image file: WallpaperRenderer.save.                       *)
(*                                                                         *)
(* An image is written in NChunks chunks. A chunk holds the number of the  *)
(* image it belongs to: 0 for the image the file held before, w for the    *)
(* image rendered by writer w, -1 for bytes nobody has written.            *)
(***************************************************************************)
Writers == 1..NWriters

NoIno == 0

\* the inode of the wallpaper file found at the start
FirstIno == NWriters + 1

Inodes == 1..FirstIno

Hole == -1

OldImage == 0

FullImage(v) == [k \in 1..NChunks |-> v]

\* a file as a reader finds it under a name
FileView(ino) ==
    IF ino = NoIno THEN [exists |-> FALSE, bytes |-> <<>>]
    ELSE [exists |-> TRUE, bytes |-> data[ino]]

\* write(2) of chunk k: bytes between the end of the file and the chunk are a hole
WriteAt(bytes, k, v) ==
    [i \in 1..(IF Len(bytes) > k THEN Len(bytes) ELSE k) |->
        IF i = k THEN v ELSE IF i <= Len(bytes) THEN bytes[i] ELSE Hole]

\* an inode no name refers to is never read again: its content is dropped
Linked(d, tmp, dest) == [i \in Inodes |-> IF i \in {tmp, dest} THEN d[i] ELSE <<>>]

Saving(w) == spc[w] \notin {"idle", "done"}

\* save: self.img.save(temp_path, 'PNG', optimize=True) opens temp_path with
\* mode "w+b": the file is created, or truncated when it exists
SaveOpen(w) ==
    /\ UNCHANGED nonSaveVars
    /\ spc[w] = "idle"
    /\ destBefore' = [destBefore EXCEPT ![w] = FileView(destIno)]
    /\ \E ok \in BOOLEAN :
         IF ok
           THEN /\ tmpIno' = IF tmpIno = NoIno THEN w ELSE tmpIno
                /\ data' = [data EXCEPT ![tmpIno'] = <<>>]
                /\ fd' = [fd EXCEPT ![w] = tmpIno']
                /\ spc' = [spc EXCEPT ![w] = "write"]
                /\ UNCHANGED failed
           ELSE /\ failed' = [failed EXCEPT ![w] = TRUE]
                /\ spc' = [spc EXCEPT ![w] = "c_exists"]
                /\ UNCHANGED <<tmpIno, data, fd>>
    /\ UNCHANGED <<destIno, pos, outcome, observed>>

\* save called while no other call of save is under way
SaveOpenAlone(w) ==
    /\ \A u \in Writers : ~Saving(u)
    /\ SaveOpen(w)

\* save: the image encoder writes the next chunk through its descriptor; a
\* failure (disk full) ends the write
SaveWrite(w) ==
    /\ UNCHANGED nonSaveVars
    /\ spc[w] = "write"
    /\ \E ok \in BOOLEAN :
         IF ok
           THEN /\ data' = Linked([data EXCEPT ![fd[w]] = WriteAt(@, pos[w] + 1, w)],
                                  tmpIno, destIno)
                /\ pos' = [pos EXCEPT ![w] = @ + 1]
                /\ spc' = [spc EXCEPT ![w] = IF pos[w] + 1 = NChunks THEN "replace"
                                             ELSE "write"]
                /\ UNCHANGED failed
           ELSE /\ failed' = [failed EXCEPT ![w] = TRUE]
                /\ spc' = [spc EXCEPT ![w] = "c_exists"]
                /\ UNCHANGED <<data, pos>>
    /\ UNCHANGED <<tmpIno, destIno, fd, destBefore, outcome, observed>>

\* the name path after os.replace(temp_path, path)
ReplacedDestInPlace(tmp, dest) == dest

ReplacedDest(tmp, dest) == tmp

\* save: os.replace(temp_path, path); it fails when temp_path is missing or
\* the rename is refused
SaveReplace(w) ==
    /\ UNCHANGED nonSaveVars
    /\ spc[w] = "replace"
    /\ \E ok \in BOOLEAN :
         IF ok /\ tmpIno # NoIno
           THEN /\ destIno' = ReplacedDest(tmpIno, destIno)
                /\ tmpIno' = NoIno
                /\ data' = Linked(data, tmpIno', destIno')
                /\ spc' = [spc EXCEPT ![w] = "verify"]
                /\ UNCHANGED failed
           ELSE /\ failed' = [failed EXCEPT ![w] = TRUE]
                /\ spc' = [spc EXCEPT ![w] = "c_exists"]
                /\ UNCHANGED <<tmpIno, destIno, data>>
    /\ UNCHANGED <<fd, pos, destBefore, outcome, observed>>

\* save: if not os.path.exists(path): raise RuntimeError
SaveVerify(w) ==
    /\ UNCHANGED nonSaveVars
    /\ spc[w] = "verify"
    /\ IF destIno # NoIno
         THEN /\ outcome' = [outcome EXCEPT ![w] = "returned"]
              /\ spc' = [spc EXCEPT ![w] = "end"]
              /\ UNCHANGED failed
         ELSE /\ failed' = [failed EXCEPT ![w] = TRUE]
              /\ spc' = [spc EXCEPT ![w] = "c_exists"]
              /\ UNCHANGED outcome
    /\ UNCHANGED <<tmpIno, destIno, data, fd, pos, destBefore, observed>>

\* how save ends after its except block: raise
CleanupOutcomeSwallowed == "returned"

CleanupOutcome == "raised"

\* save, except block: if os.path.exists(temp_path)
SaveCleanupExists(w) ==
    /\ UNCHANGED nonSaveVars
    /\ spc[w] = "c_exists"
    /\ IF tmpIno # NoIno
         THEN spc' = [spc EXCEPT ![w] = "c_unlink"] /\ UNCHANGED outcome
         ELSE /\ outcome' = [outcome EXCEPT ![w] = CleanupOutcome]
              /\ spc' = [spc EXCEPT ![w] = "end"]
    /\ UNCHANGED <<tmpIno, destIno, data, fd, pos, destBefore, failed, observed>>

\* the name temp_path after os.unlink(temp_path)
UnlinkedLeft(tmp) == tmp

Unlinked(tmp) == NoIno

\* save, except block: os.unlink(temp_path), an OSError ignored; then raise
SaveCleanupUnlink(w) ==
    /\ UNCHANGED nonSaveVars
    /\ spc[w] = "c_unlink"
    /\ tmpIno' = Unlinked(tmpIno)
    /\ data' = Linked(data, tmpIno', destIno)
    /\ outcome' = [outcome EXCEPT ![w] = CleanupOutcome]
    /\ spc' = [spc EXCEPT ![w] = "end"]
    /\ UNCHANGED <<destIno, fd, pos, destBefore, failed, observed>>

\* the caller, generate_wallpaper, has the answer of save
SaveReturn(w) ==
    /\ UNCHANGED nonSaveVars
    /\ spc[w] = "end"
    /\ spc' = [spc EXCEPT ![w] = "done"]
    /\ UNCHANGED <<tmpIno, destIno, data, fd, pos, destBefore, failed, outcome,
                   observed>>

\* a reader (the desktop, or the preview's Image.open) reads the wallpaper file
ReadWallpaper ==
    /\ UNCHANGED nonSaveVars
    /\ observed' = FileView(destIno)
    /\ UNCHANGED <<spc, tmpIno, destIno, data, fd, pos, destBefore, failed, outcome>>


(***************************************************************************)
(* The configuration file: LifeCalendarGUI.save_config and                 *)
(* WallpaperEngine.load_config. A document is written in NCfgChunks        *)
(* chunks; a chunk holds the number of the document it belongs to.         *)
(***************************************************************************)
NoCfgFile == [exists |-> FALSE, bytes |-> <<>>]

\* json.dump(self.config, f, indent=2): the text of document v
JsonDump(v) == [k \in 1..NCfgChunks |-> v]

\* json.load(f): the document, or a JSONDecodeError for text that is no
\* complete document, which load_config raises again as ValueError
JsonLoad(bytes) ==
    IF Len(bytes) = NCfgChunks /\ (\A k \in 1..NCfgChunks : bytes[k] = bytes[1])
      THEN [kind |-> "config", doc |-> bytes[1]]
      ELSE [kind |-> "invalid", doc |-> 0]

\* save_config: if os.path.exists(self.config_file)
CfgSaveBegin ==
    /\ UNCHANGED nonCfgVars
    /\ gpc = "idle"
    /\ gver < MaxSaves
    /\ gver' = gver + 1
    /\ gpc' = IF cfgFile.exists THEN "backup" ELSE "open"
    /\ UNCHANGED <<gpos, cfgFile, bakFile, rpc, loaded>>

\* save_config: shutil.copy(self.config_file, self.config_file + ".bak"); an
\* OSError ends save_config with an error dialog
CfgBackup ==
    /\ UNCHANGED nonCfgVars
    /\ gpc = "backup"
    /\ \E ok \in BOOLEAN :
         IF ok
           THEN bakFile' = cfgFile /\ gpc' = "open"
           ELSE bakFile' = bakFile /\ gpc' = "idle"
    /\ UNCHANGED <<gver, gpos, cfgFile, rpc, loaded>>

\* the file after open(self.config_file, 'w'): created, or truncated in place
OpenedForWriteKept(f) == [exists |-> TRUE, bytes |-> f.bytes]

OpenedForWrite(f) == [exists |-> TRUE, bytes |-> <<>>]

\* save_config: with open(self.config_file, 'w', encoding='utf-8') as f
CfgOpen ==
    /\ UNCHANGED nonCfgVars
    /\ gpc = "open"
    /\ \E ok \in BOOLEAN :
         IF ok
           THEN /\ cfgFile' = OpenedForWrite(cfgFile)
                /\ gpos' = 0
                /\ gpc' = "dump"
           ELSE gpc' = "idle" /\ UNCHANGED <<cfgFile, gpos>>
    /\ UNCHANGED <<gver, bakFile, rpc, loaded>>

\* save_config: json.dump writes the next chunk of the document
CfgDump ==
    /\ UNCHANGED nonCfgVars
    /\ gpc = "dump"
    /\ \E ok \in BOOLEAN :
         IF ok
           THEN /\ cfgFile' = [cfgFile EXCEPT !.bytes = Append(@, JsonDump(gver)[gpos + 1])]
                /\ gpos' = gpos + 1
                /\ gpc' = IF gpos + 1 = NCfgChunks THEN "close" ELSE "dump"
           ELSE gpc' = "idle" /\ UNCHANGED <<cfgFile, gpos>>
    /\ UNCHANGED <<gver, bakFile, rpc, loaded>>

\* save_config: the with block closes the file
CfgClose ==
    /\ UNCHANGED nonCfgVars
    /\ gpc = "close"
    /\ gpc' = "idle"
    /\ UNCHANGED <<gver, gpos, cfgFile, bakFile, rpc, loaded>>

\* load_config: if os.path.exists(self.config_file), else FileNotFoundError
LoadBegin ==
    /\ UNCHANGED nonCfgVars
    /\ rpc = "idle"
    /\ IF cfgFile.exists
         THEN rpc' = "read" /\ UNCHANGED loaded
         ELSE /\ loaded' = [kind |-> "missing", doc |-> 0, during |-> gpc # "idle"]
              /\ UNCHANGED rpc
    /\ UNCHANGED <<gpc, gver, gpos, cfgFile, bakFile>>

\* load_config: loaded = json.load(f). during records that save_config was
\* running when the file was read.
LoadRead ==
    /\ UNCHANGED nonCfgVars
    /\ rpc = "read"
    /\ loaded' = [kind |-> JsonLoad(cfgFile.bytes).kind,
                  doc |-> JsonLoad(cfgFile.bytes).doc,
                  during |-> gpc # "idle"]
    /\ rpc' = "idle"
    /\ UNCHANGED <<gpc, gver, gpos, cfgFile, bakFile>>

(***************************************************************************)
(* Dates, as datetime computes with them. A date string "YYYY-MM-DD" is    *)
(* the triple of its numbers; the empty string is the empty sequence.      *)
(***************************************************************************)
\* calendar.isleap(year)
IsLeap(y) == y % 4 = 0 /\ (y % 100 # 0 \/ y % 400 = 0)

DaysInMonth(y, m) ==
    IF m = 2 THEN (IF IsLeap(y) THEN 29 ELSE 28)
    ELSE IF m \in {4, 6, 9, 11} THEN 30 ELSE 31

\* days before January 1st of year y
DaysBeforeYear(y) ==
    (y - 1) * 365 + ((y - 1) \div 4) - ((y - 1) \div 100) + ((y - 1) \div 400)

RECURSIVE DaysBeforeMonth(_, _)
DaysBeforeMonth(y, m) ==
    IF m = 1 THEN 0 ELSE DaysBeforeMonth(y, m - 1) + DaysInMonth(y, m - 1)

\* date.toordinal(): the difference of two dates in days is the difference of
\* their ordinals
ToOrdinal(dt) == DaysBeforeYear(dt[1]) + DaysBeforeMonth(dt[1], dt[2]) + dt[3]

NoDate == <<>>

\* safe_date(date_str): datetime.strptime(date_str, "%Y-%m-%d"), None when the
\* string is no date
SafeDate(str) ==
    IF /\ Len(str) = 3
       /\ str[1] \in 1..9999
       /\ str[2] \in 1..12
       /\ str[3] \in 1..DaysInMonth(str[1], str[2])
      THEN str
      ELSE NoDate

Min(a, b) == IF a < b THEN a ELSE b

Max(a, b) == IF a > b THEN a ELSE b

(***************************************************************************)
(* LifeCalendarData.                                                       *)
(***************************************************************************)
MinLifespan == 1

MaxLifespan == 150

\* 365.2425 days a year, in ten-thousandths of a day
DaysPerYear10k == 3652425

TenThousand == 10000

DaysPerWeek == 7

\* LifeCalendarData.__init__: self.lifespan = max(1, min(lifespan, 150))
LifespanClamped(lifespan) == Max(MinLifespan, Min(lifespan, MaxLifespan))

\* calculate: total_days = int(self.lifespan * 365.2425);
\* total_weeks = total_days // 7. (For whole years up to 150 the product is at
\* least 0.0025 away from a whole number, so that the rounding of the floating
\* point product does not change int().)
TotalWeeksFiftyTwo(lifespan) == lifespan * 52

TotalWeeks(lifespan) ==
    ((lifespan * DaysPerYear10k) \div TenThousand) \div DaysPerWeek

\* calculate: weeks_lived = min(days_lived // 7, total_weeks)
WeeksLivedUnclamped(dob, today, totalWeeks) ==
    (ToOrdinal(today) - ToOrdinal(dob)) \div DaysPerWeek

WeeksLived(dob, today, totalWeeks) ==
    Min((ToOrdinal(today) - ToOrdinal(dob)) \div DaysPerWeek, totalWeeks)

\* LifeCalendarData(dob_str, lifespan).calculate() on the day today
LifeCalendar(dobStr, lifespan, today) ==
    IF SafeDate(dobStr) = NoDate
      THEN [state |-> "ValueError", total |-> 0, filled |-> 0]
      ELSE LET total == TotalWeeks(LifespanClamped(lifespan)) IN
           [state |-> "done", total |-> total,
            filled |-> WeeksLived(SafeDate(dobStr), today, total)]

CalcLife ==
    /\ UNCHANGED nonCalcVars
    /\ calcIn.mode = "life"
    /\ calcOut.state = "none"
    /\ calcOut' = LifeCalendar(calcIn.dob, calcIn.lifespan, calcIn.today)
    /\ UNCHANGED calcIn

(***************************************************************************)
(* YearCalendarData.                                                       *)
(***************************************************************************)
YearDays == 365

LeapYearDays == 366

\* calculate: total_days = 366 if is_leap else 365
YearTotalDays(year) == IF IsLeap(year) THEN LeapYearDays ELSE YearDays

\* calculate: day_of_year = (today - start_of_year).days + 1, then
\* min(day_of_year, total_days)
DayOfYearFromZero(today) ==
    Min(ToOrdinal(today) - ToOrdinal(<<today[1], 1, 1>>), YearTotalDays(today[1]))

DayOfYear(today) ==
    Min(ToOrdinal(today) - ToOrdinal(<<today[1], 1, 1>>) + 1, YearTotalDays(today[1]))

\* YearCalendarData().calculate() on the day today
YearCalendar(today) ==
    [state |-> "done", total |-> YearTotalDays(today[1]), filled |-> DayOfYear(today)]

CalcYear ==
    /\ UNCHANGED nonCalcVars
    /\ calcIn.mode = "year"
    /\ calcOut.state = "none"
    /\ calcOut' = YearCalendar(calcIn.today)
    /\ UNCHANGED calcIn

(***************************************************************************)
(* GoalCalendarData.                                                       *)
(***************************************************************************)
\* calculate: passed_days is 0 before the start, total_days after the end,
\* and the days since the start in between
GoalPassedUnclamped(start, end, today) ==
    IF ToOrdinal(today) < ToOrdinal(start) THEN 0
    ELSE ToOrdinal(today) - ToOrdinal(start)

GoalPassed(start, end, today) ==
    IF ToOrdinal(today) < ToOrdinal(start) THEN 0
    ELSE IF ToOrdinal(today) > ToOrdinal(end) THEN ToOrdinal(end) - ToOrdinal(start)
    ELSE ToOrdinal(today) - ToOrdinal(start)

\* GoalCalendarData(start_str, end_str).calculate() on the day today;
\* __init__ raises ValueError for a string that is no date and for an end
\* that is not after the start
GoalCalendar(startStr, endStr, today) ==
    IF SafeDate(startStr) = NoDate \/ SafeDate(endStr) = NoDate
      THEN [state |-> "ValueError", total |-> 0, filled |-> 0]
    ELSE IF ToOrdinal(SafeDate(endStr)) <= ToOrdinal(SafeDate(startStr))
      THEN [state |-> "ValueError", total |-> 0, filled |-> 0]
    ELSE [state |-> "done",
          total |-> ToOrdinal(SafeDate(endStr)) - ToOrdinal(SafeDate(startStr)),
          filled |-> GoalPassed(SafeDate(startStr), SafeDate(endStr), today)]

CalcGoal ==
    /\ UNCHANGED nonCalcVars
    /\ calcIn.mode = "goal"
    /\ calcOut.state = "none"
    /\ calcOut' = GoalCalendar(calcIn.start, calcIn.end, calcIn.today)
    /\ UNCHANGED calcIn


(***************************************************************************)
(* GridLayout. The code computes with floating point numbers and cuts the  *)
(* results with int(); the same values in whole numbers are used here      *)
(* (int() cuts towards zero).                                              *)
(***************************************************************************)
LifeColumns == 52

YearColumns == 31

GoalColumnsCap == 60

GoalAdaptiveLimit == 365

MaxCellSize == 20

MinGap == 2

HeaderBias == 60

\* a / b cut towards zero, for b > 0
TruncDiv(a, b) == IF a >= 0 THEN a \div b ELSE -((-a) \div b)

\* _get_columns
Columns(mode, totalUnits) ==
    IF mode = "life" THEN LifeColumns
    ELSE IF mode = "year" THEN YearColumns
    ELSE IF mode = "goal"
      THEN (IF totalUnits <= GoalAdaptiveLimit THEN Min(LifeColumns, totalUnits)
            ELSE GoalColumnsCap)
    ELSE LifeColumns

\* _calculate_dimensions: cell_size = int(min(canvas_width * 0.9 / columns,
\* canvas_height * 0.75 / rows, 20))
CellSize(columns, rows, width, height) ==
    Min(Min((9 * width) \div (10 * columns), (3 * height) \div (4 * rows)), MaxCellSize)

\* _calculate_dimensions: gap = int(max(2, cell_size * 0.15))
Gap(cellSize) == Max(MinGap, (15 * cellSize) \div 100)

\* GridLayout(mode, total_units, canvas_width, canvas_height)
GridLayout(mode, totalUnits, width, height) ==
    LET total == Max(1, totalUnits)
        columns == Columns(mode, total)
        rows == (total + columns - 1) \div columns
        cell == CellSize(columns, rows, width, height)
        gap == Gap(cell)
        gridWidth == columns * cell + (columns - 1) * gap
        gridHeight == rows * cell + (rows - 1) * gap
    IN [total_units |-> total, columns |-> columns, rows |-> rows,
        cell_size |-> cell, gap |-> gap,
        grid_width |-> gridWidth, grid_height |-> gridHeight,
        start_x |-> TruncDiv(width - gridWidth, 2),
        start_y |-> TruncDiv(height - gridHeight + 2 * HeaderBias, 2)]

\* get_cell_position(index)
CellPosition(layout, index) ==
    [x |-> layout.start_x + (index % layout.columns) * (layout.cell_size + layout.gap),
     y |-> layout.start_y + (index \div layout.columns) * (layout.cell_size + layout.gap)]

NoLayout == GridLayout("none", 1, 0, 0)

\* generate_wallpaper: layout = GridLayout(mode, total_units, width, height)
LayoutGrid ==
    /\ UNCHANGED nonGridVars
    /\ gridOut.state = "none"
    /\ gridIn.draw = FALSE
    /\ gridOut' = [state |-> "laid",
                   layout |-> GridLayout(gridIn.mode, gridIn.total, gridIn.width, gridIn.height),
                   cells |-> <<>>]
    /\ UNCHANGED gridIn

(***************************************************************************)
(* WallpaperRenderer.draw_grid.                                            *)
(***************************************************************************)
\* draw_grid: the colour of cell i
CellColourInclusive(i, totalUnits, filledUnits) ==
    IF i <= filledUnits THEN "completed"
    ELSE IF filledUnits < totalUnits /\ i = filledUnits THEN "current"
    ELSE "future"

CellColour(i, totalUnits, filledUnits) ==
    IF i < filledUnits THEN "completed"
    ELSE IF filledUnits < totalUnits /\ i = filledUnits THEN "current"
    ELSE "future"

\* draw_grid(layout, total_units, filled_units): the rectangles drawn, by index
GridCells(layout, totalUnits, filledUnits) ==
    [i \in 0..(totalUnits - 1) |->
        [pos |-> CellPosition(layout, i),
         size |-> layout.cell_size,
         colour |-> CellColour(i, totalUnits, filledUnits)]]

\* generate_wallpaper: the layout, then renderer.draw_grid
DrawGrid ==
    /\ UNCHANGED nonGridVars
    /\ gridOut.state = "none"
    /\ gridIn.draw = TRUE
    /\ LET layout == GridLayout(gridIn.mode, gridIn.total, gridIn.width, gridIn.height) IN
         gridOut' = [state |-> "drawn",
                     layout |-> layout,
                     cells |-> GridCells(layout, gridIn.total, gridIn.filled)]
    /\ UNCHANGED gridIn

\* generate_wallpaper in year mode: YearCalendarData().calculate(), the
\* layout, then renderer.draw_grid
DrawYearGrid ==
    /\ UNCHANGED nonGridVars
    /\ gridOut.state = "none"
    /\ gridIn.mode = "year"
    /\ LET units == YearCalendar(gridIn.today)
           layout == GridLayout("year", units.total, gridIn.width, gridIn.height)
       IN  gridOut' = [state |-> "drawn",
                       layout |-> layout,
                       cells |-> GridCells(layout, units.total, units.filled)]
    /\ UNCHANGED gridIn

(***************************************************************************)
(* WallpaperEngine.validate_config. A numeric field of the configuration   *)
(* is a number, or text that int() refuses; a title is a sequence of       *)
(* characters.                                                             *)
(***************************************************************************)
MinWidth == 800

MinHeight == 600

Num(n) == [num |-> TRUE, val |-> n]

NotNum == [num |-> FALSE, val |-> 0]

ValidateConfigLax(cfg, today) == "ok"

ValidateConfig(cfg, today) ==
    IF ~cfg.resolution_width.num \/ ~cfg.resolution_height.num
      THEN "Resolution must be numeric integers"
    ELSE IF cfg.resolution_width.val < MinWidth \/ cfg.resolution_height.val < MinHeight
      THEN "Resolution must be at least 800x600"
    ELSE IF cfg.mode = "life"
      THEN (IF cfg.dob = <<>>
              THEN "Date of birth is required for life calendar"
            ELSE IF SafeDate(cfg.dob) = NoDate
              THEN "Invalid date of birth format. Use YYYY-MM-DD"
            ELSE IF ToOrdinal(SafeDate(cfg.dob)) > ToOrdinal(today)
              THEN "Date of birth cannot be in the future"
            ELSE IF ~cfg.lifespan.num
              THEN "Lifespan must be numeric"
            ELSE IF cfg.lifespan.val < MinLifespan \/ cfg.lifespan.val > MaxLifespan
              THEN "Lifespan must be between 1 and 150 years"
            ELSE "ok")
    ELSE IF cfg.mode = "goal"
      THEN (IF cfg.goal_start = <<>> \/ cfg.goal_end = <<>>
              THEN "Goal start and end dates are required"
            ELSE IF Strip(cfg.goal_title) = <<>>
              THEN "Goal title is required"
            ELSE IF SafeDate(cfg.goal_start) = NoDate
              THEN "Invalid goal start date format. Use YYYY-MM-DD"
            ELSE IF SafeDate(cfg.goal_end) = NoDate
              THEN "Invalid goal end date format. Use YYYY-MM-DD"
            ELSE IF ToOrdinal(SafeDate(cfg.goal_end)) <= ToOrdinal(SafeDate(cfg.goal_start))
              THEN "Goal end date must be after start date"
            ELSE "ok")
    ELSE "ok"

(***************************************************************************)
(* WallpaperEngine.generate_wallpaper, up to renderer.save.                *)
(***************************************************************************)
\* the data layer: the CalendarData object of the mode and its calculate();
\* int() of a field that is no number, a constructor that refuses its dates
\* and an unknown mode all raise ValueError
CalendarOf(cfg, today) ==
    IF ~cfg.resolution_width.num \/ ~cfg.resolution_height.num
      THEN [state |-> "ValueError", total |-> 0, filled |-> 0]
    ELSE IF cfg.mode = "life"
      THEN (IF ~cfg.lifespan.num
              THEN [state |-> "ValueError", total |-> 0, filled |-> 0]
              ELSE LifeCalendar(cfg.dob, cfg.lifespan.val, today))
    ELSE IF cfg.mode = "year" THEN YearCalendar(today)
    ELSE IF cfg.mode = "goal" THEN GoalCalendar(cfg.goal_start, cfg.goal_end, today)
    ELSE [state |-> "ValueError", total |-> 0, filled |-> 0]

\* generate_wallpaper before renderer.save: the stage it fails at ("validate",
\* "data"), or "render" with the renderer constructed and the grid drawn
Prepared(cfg, today) ==
    IF ValidateConfig(cfg, today) # "ok"
      THEN [stage |-> "validate", renderer |-> FALSE, total |-> 0, filled |-> 0]
    ELSE IF CalendarOf(cfg, today).state # "done"
      THEN [stage |-> "data", renderer |-> FALSE, total |-> 0, filled |-> 0]
    ELSE [stage |-> "render", renderer |-> TRUE,
          total |-> CalendarOf(cfg, today).total,
          filled |-> CalendarOf(cfg, today).filled]

(***************************************************************************)
(* WallpaperEngine.set_wallpaper.                                          *)
(***************************************************************************)
MinWallpaperBytes == 1000

NoWallpaper == [exists |-> FALSE, bytes |-> 0, content |-> "none"]

\* what a branch of set_wallpaper answers: the pair (success, message), whether
\* it called the operating system, the commands it ran, and what it let out
Refused(message) ==
    [ok |-> FALSE, invoked |-> FALSE, message |-> message,
     branch |-> "none", ran |-> <<>>, raised |-> "none"]

Invoked(ok, message) ==
    [ok |-> ok, invoked |-> TRUE, message |-> message,
     branch |-> "none", ran |-> <<>>, raised |-> "none"]

\* _set_windows_wallpaper: the file is checked, then SystemParametersInfoW
SetWindowsWallpaper(file, osOk) ==
    IF ~file.exists THEN Refused("Wallpaper file missing")
    ELSE IF file.bytes < MinWallpaperBytes
      THEN Refused("Wallpaper file corrupted (too small)")
    ELSE IF osOk THEN Invoked(TRUE, "Wallpaper set successfully")
    ELSE Invoked(FALSE, "Windows API call failed")

\* _set_macos_wallpaper: osascript runs the script
SetMacosWallpaper(file, osOk) ==
    IF osOk THEN Invoked(TRUE, "Wallpaper set successfully")
    ELSE Invoked(FALSE, "osascript failed")

\* str.lower() on the letters of the alphabet
UpperLetters ==
    <<"A", "B", "C", "D", "E", "F", "G", "H", "I", "J", "K", "L", "M",
      "N", "O", "P", "Q", "R", "S", "T", "U", "V", "W", "X", "Y", "Z">>

LowerLetters ==
    <<"a", "b", "c", "d", "e", "f", "g", "h", "i", "j", "k", "l", "m",
      "n", "o", "p", "q", "r", "s", "t", "u", "v", "w", "x", "y", "z">>

LowerChar(c) ==
    IF \E i \in 1..Len(UpperLetters) : UpperLetters[i] = c
      THEN LowerLetters[CHOOSE i \in 1..Len(UpperLetters) : UpperLetters[i] = c]
      ELSE c

Lower(s) == [i \in 1..Len(s) |-> LowerChar(s[i])]

\* w in s
Contains(s, w) == \E i \in 0..(Len(s) - Len(w)) : SubSeq(s, i + 1, i + Len(w)) = w

\* the words _set_linux_wallpaper looks for
Gnome == <<"g", "n", "o", "m", "e">>
Ubuntu == <<"u", "b", "u", "n", "t", "u">>
Unity == <<"u", "n", "i", "t", "y">>
Kde == <<"k", "d", "e">>
Plasma == <<"p", "l", "a", "s", "m", "a">>
Xfce == <<"x", "f", "c", "e">>
Mate == <<"m", "a", "t", "e">>
Cinnamon == <<"c", "i", "n", "n", "a", "m", "o", "n">>

\* _set_linux_wallpaper: desktop_env = de + session, both lower-cased
DesktopEnv(de, session) == Lower(de) \o Lower(session)

\* _set_linux_wallpaper: the if/elif chain, with KDE looked for first
LinuxBranchKdeFirst(env) ==
    IF Contains(env, Kde) \/ Contains(env, Plasma) THEN "kde"
    ELSE IF Contains(env, Gnome) \/ Contains(env, Ubuntu) \/ Contains(env, Unity)
      THEN "gnome"
    ELSE IF Contains(env, Xfce) THEN "xfce"
    ELSE IF Contains(env, Mate) THEN "mate"
    ELSE IF Contains(env, Cinnamon) THEN "cinnamon"
    ELSE "feh"

\* _set_linux_wallpaper: the if/elif chain over desktop_env
LinuxBranch(env) ==
    IF Contains(env, Gnome) \/ Contains(env, Ubuntu) \/ Contains(env, Unity)
      THEN "gnome"
    ELSE IF Contains(env, Kde) \/ Contains(env, Plasma) THEN "kde"
    ELSE IF Contains(env, Xfce) THEN "xfce"
    ELSE IF Contains(env, Mate) THEN "mate"
    ELSE IF Contains(env, Cinnamon) THEN "cinnamon"
    ELSE "feh"

\* the command a branch asks shutil.which for
BranchTool(branch) ==
    IF branch = "kde" THEN "plasma-apply-wallpaperimage"
    ELSE IF branch = "xfce" THEN "xfconf-query"
    ELSE IF branch = "feh" THEN "feh"
    ELSE "gsettings"

\* _set_linux_wallpaper: the command for the desktop environment
LinuxCommand(desktop) == BranchTool(LinuxBranch(DesktopEnv(desktop[1], desktop[2])))

\* the subprocess.run calls of a branch: picture-uri and picture-uri-dark for
\* GNOME, one command for the others
BranchRuns(branch) ==
    IF branch = "gnome" THEN <<"gsettings", "gsettings">> ELSE <<BranchTool(branch)>>

\* the message of a branch whose command shutil.which does not find
NotInstalled(branch) ==
    IF branch = "feh"
      THEN <<"No supported wallpaper command found (install ", "feh", " for minimal WMs)">>
      ELSE <<BranchTool(branch), " not installed">>

\* what _set_linux_wallpaper lets out of its try block: except Exception:
\* return False, "Failed to set wallpaper on Linux"
LinuxLetsOut(err) == "none"

\* _set_linux_wallpaper: the branch of the desktop; its command runs when
\* shutil.which finds it; subprocess.run raises OSError when the command
\* cannot be started; osOk says whether a command that ran returned 0
SetLinuxWallpaper(file, desktop, tools, spawns, osOk) ==
    LET branch == LinuxBranch(DesktopEnv(desktop[1], desktop[2])) IN
    IF BranchTool(branch) \notin tools
      THEN [Refused(NotInstalled(branch)) EXCEPT !.branch = branch]
    ELSE IF ~spawns
      THEN [Invoked(FALSE, "Failed to set wallpaper on Linux") EXCEPT
               !.branch = branch, !.ran = <<BranchTool(branch)>>,
               !.raised = LinuxLetsOut("OSError")]
    ELSE IF osOk
      THEN [Invoked(TRUE, "Wallpaper set successfully") EXCEPT
               !.branch = branch, !.ran = BranchRuns(branch)]
    ELSE [Invoked(FALSE, <<"Wallpaper command '", BranchTool(branch), "' failed">>) EXCEPT
               !.branch = branch, !.ran = BranchRuns(branch)]

\* set_wallpaper: by platform.system()
SetWallpaper(system, desktop, file, tools, spawns, osOk) ==
    IF system = "Windows" THEN SetWindowsWallpaper(file, osOk)
    ELSE IF system = "Darwin" THEN SetMacosWallpaper(file, osOk)
    ELSE IF system = "Linux" THEN SetLinuxWallpaper(file, desktop, tools, spawns, osOk)
    ELSE Refused("Unsupported OS")


(***************************************************************************)
(* One unattended run: auto_update.main, WallpaperEngine.__init__,         *)
(* run_auto, generate_wallpaper, set_wallpaper. The lock and the steps of  *)
(* save are those of the sections above; here acquire_lock succeeds or     *)
(* raises, and save succeeds or raises, as a whole.                        *)
(***************************************************************************)
ConfigNotFoundFile == "ERROR_CONFIG_NOT_FOUND.txt"

GenerationFailedFile == "ERROR_GENERATION_FAILED.txt"

\* main: return 0 after a successful run_auto, return 1 otherwise
ExitCodeAlwaysZero(success) == 0

ExitCode(success) == IF success THEN 0 ELSE 1

\* error_file.write_text(...): the file is there unless the write raises OSError
Written(files, name, writable) == IF writable THEN files \cup {name} ELSE files

\* main: if not config_file.exists(): the marker file is written, return 1
MainStart ==
    /\ UNCHANGED nonMainVars
    /\ mpc = "main"
    /\ IF runIn.configFile = "missing"
         THEN /\ errFiles' = Written(errFiles, ConfigNotFoundFile, runIn.writable)
              /\ run' = [run EXCEPT !.markerTried = TRUE, !.code = ExitCode(FALSE)]
              /\ mpc' = "exit"
         ELSE /\ mpc' = "engine"
              /\ UNCHANGED <<errFiles, run>>
    /\ UNCHANGED <<runIn, wallFile, wallTmp>>

\* WallpaperEngine.__init__: self.config = self.load_config(); what load_config
\* raises goes to the caller of the constructor
LoadConfigRaises(configFile) ==
    IF configFile = "malformed" THEN "ValueError"
    ELSE IF configFile = "missing" THEN "FileNotFoundError"
    ELSE "none"

\* what run_auto lets out of its try block: except Exception: return False
RunAutoLetsOutUncaught(err) == err

RunAutoLetsOut(err) == "none"

\* GoalCalendarData.get_subtitle: subtitle.strip(); CalendarData.get_subtitle: ""
Subtitle(cfg) == IF cfg.mode = "goal" THEN Strip(cfg.goal_subtitle) ELSE <<>>

\* generate_wallpaper before renderer.save: the steps it starts, in order
GenerateSteps(cfg, today) ==
    IF Prepared(cfg, today).stage = "validate" THEN <<"validate">>
    ELSE IF Prepared(cfg, today).stage = "data" THEN <<"validate", "data">>
    ELSE <<"validate", "data", "layout", "title">>
         \o (IF Subtitle(cfg) # <<>> THEN <<"subtitle", "stats">> ELSE <<"stats">>)
         \o <<"grid", "legend">>

\* main: engine = WallpaperEngine(str(config_file)); load_config raises
\* ValueError for a file that is no JSON document, and main returns 1
MainEngine ==
    /\ UNCHANGED nonMainVars
    /\ mpc = "engine"
    /\ IF LoadConfigRaises(runIn.configFile) # "none"
         THEN /\ run' = [run EXCEPT !.code = ExitCode(FALSE),
                                    !.raised = LoadConfigRaises(runIn.configFile),
                                    !.steps = Append(@, "load")]
              /\ mpc' = "exit"
         ELSE /\ run' = [run EXCEPT !.loaded = TRUE, !.steps = Append(@, "load")]
              /\ mpc' = "acquire"
    /\ UNCHANGED <<runIn, wallFile, wallTmp, errFiles>>

\* run_auto: acquire_lock(); a RuntimeError ends run_auto with False
MainAcquire ==
    /\ UNCHANGED nonMainVars
    /\ mpc = "acquire"
    /\ IF runIn.lockFree
         THEN /\ run' = [run EXCEPT !.locked = TRUE, !.steps = Append(@, "acquire")]
              /\ mpc' = "generate"
         ELSE /\ run' = [run EXCEPT !.success = "false",
                                    !.raised = RunAutoLetsOut("RuntimeError"),
                                    !.steps = Append(@, "acquire")]
              /\ mpc' = "release"
    /\ UNCHANGED <<runIn, wallFile, wallTmp, errFiles>>

\* run_auto: self.generate_wallpaper(), up to renderer.save
MainGenerate ==
    /\ UNCHANGED nonMainVars
    /\ mpc = "generate"
    /\ LET p == Prepared(runIn.config, runIn.today) IN
         IF p.stage = "render"
           THEN /\ run' = [run EXCEPT !.stage = p.stage, !.renderer = p.renderer,
                                      !.steps = @ \o GenerateSteps(runIn.config, runIn.today)]
                /\ mpc' = "save"
           ELSE /\ run' = [run EXCEPT !.stage = p.stage, !.renderer = p.renderer,
                                      !.success = "false",
                                      !.steps = @ \o GenerateSteps(runIn.config, runIn.today)]
                /\ mpc' = "release"
    /\ UNCHANGED <<runIn, wallFile, wallTmp, errFiles>>

\* generate_wallpaper: renderer.save(self.wallpaper_path); the image replaces
\* the file, or save raises with the file as it was and the temporary file
\* removed
MainSave ==
    /\ UNCHANGED nonMainVars
    /\ mpc = "save"
    /\ \E ok \in BOOLEAN :
         IF ok
           THEN /\ wallFile' = [exists |-> TRUE, bytes |-> runIn.bytes, content |-> "new"]
                /\ run' = [run EXCEPT !.saved = TRUE, !.steps = Append(@, "save")]
                /\ mpc' = "apply"
           ELSE /\ run' = [run EXCEPT !.stage = "save", !.success = "false",
                                      !.steps = Append(@, "save")]
                /\ mpc' = "release"
                /\ UNCHANGED wallFile
    /\ wallTmp' = FALSE
    /\ UNCHANGED <<runIn, errFiles>>

\* run_auto after a set_wallpaper that answered r: the file is left as it is
AfterApplyRolledBack(file, r) == IF r.ok THEN file ELSE NoWallpaper

AfterApply(file, r) == file

\* run_auto: self.set_wallpaper()
MainApply ==
    /\ UNCHANGED nonMainVars
    /\ mpc = "apply"
    /\ \E osOk \in BOOLEAN :
         LET r == SetWallpaper(runIn.system, runIn.desktop, wallFile, runIn.tools,
                              runIn.spawns, osOk) IN
         /\ run' = [run EXCEPT !.applied = TRUE, !.invoked = r.invoked, !.answer = r,
                               !.applyOk = IF r.ok THEN "true" ELSE "false",
                               !.success = IF r.ok THEN "true" ELSE "false",
                               !.steps = Append(@, "apply")]
         /\ wallFile' = AfterApply(wallFile, r)
    /\ mpc' = "release"
    /\ UNCHANGED <<runIn, wallTmp, errFiles>>

\* run_auto: finally: release_lock()
MainRelease ==
    /\ UNCHANGED nonMainVars
    /\ mpc = "release"
    /\ run' = [run EXCEPT !.released = TRUE, !.steps = Append(@, "release")]
    /\ mpc' = "finish"
    /\ UNCHANGED <<runIn, wallFile, wallTmp, errFiles>>

\* main: if success, the old error files are removed and 0 is returned; else
\* ERROR_GENERATION_FAILED.txt is written and 1 is returned
MainFinish ==
    /\ UNCHANGED nonMainVars
    /\ mpc = "finish"
    /\ IF run.success = "true"
         THEN errFiles' = IF runIn.writable THEN {} ELSE errFiles
         ELSE errFiles' = Written(errFiles, GenerationFailedFile, runIn.writable)
    /\ run' = [run EXCEPT !.code = ExitCode(run.success = "true")]
    /\ mpc' = "exit"
    /\ UNCHANGED <<runIn, wallFile, wallTmp>>

\* set_wallpaper called for the file as it is found
ApplyAlone ==
    /\ UNCHANGED nonMainVars
    /\ mpc = "apply_alone"
    /\ \E osOk \in BOOLEAN :
         LET r == SetWallpaper(runIn.system, runIn.desktop, wallFile, runIn.tools,
                              runIn.spawns, osOk) IN
         run' = [run EXCEPT !.applied = TRUE, !.invoked = r.invoked, !.answer = r,
                            !.applyOk = IF r.ok THEN "true" ELSE "false"]
    /\ mpc' = "applied"
    /\ UNCHANGED <<runIn, wallFile, wallTmp, errFiles>>


(***************************************************************************)
(* The GUI: _sync_config_from_ui.                                          *)
(***************************************************************************)
\* str.isdigit()
IsDigits(s) == s # <<>> /\ \A i \in 1..Len(s) : IsDigit(s[i])

\* safe_int(value, default): int(value), the default when int() raises
SafeInt(s, default) == IF ParsePid(s) = ValueError THEN default ELSE ParsePid(s)

Rejected(cfg, message) == [ok |-> FALSE, message |-> message, config |-> cfg]

Accepted(cfg) == [ok |-> TRUE, message |-> "", config |-> cfg]

\* _sync_config_from_ui: the fields of the mode
SyncMode(cfg, ui) ==
    IF ui.mode = "life"
      THEN (IF ui.dob = <<>> THEN Rejected(cfg, "Date of Birth is required")
            ELSE IF SafeDate(ui.dob) = NoDate
              THEN Rejected(cfg, "DOB must be YYYY-MM-DD format")
            ELSE IF ~IsDigits(Strip(ui.lifespan))
              THEN Rejected([cfg EXCEPT !.dob = ui.dob],
                            "Lifespan must be a number (1-150 years)")
            ELSE IF DigitsVal(Strip(ui.lifespan)) < 1 \/ DigitsVal(Strip(ui.lifespan)) > 150
              THEN Rejected([cfg EXCEPT !.dob = ui.dob],
                            "Lifespan must be between 1 and 150 years")
            ELSE Accepted([cfg EXCEPT !.dob = ui.dob,
                                      !.lifespan = Num(DigitsVal(Strip(ui.lifespan)))]))
    ELSE IF ui.mode = "goal"
      THEN (IF Strip(ui.title) = <<>> THEN Rejected(cfg, "Goal Title is required")
            ELSE IF ui.start = <<>> \/ ui.end = <<>>
              THEN Rejected(cfg, "Start and End dates are required")
            ELSE IF SafeDate(ui.start) = NoDate
              THEN Rejected(cfg, "Start date must be YYYY-MM-DD format")
            ELSE IF SafeDate(ui.end) = NoDate
              THEN Rejected(cfg, "End date must be YYYY-MM-DD format")
            ELSE IF ToOrdinal(SafeDate(ui.end)) <= ToOrdinal(SafeDate(ui.start))
              THEN Rejected(cfg, "End date must be after start date")
            ELSE Accepted([cfg EXCEPT !.goal_start = ui.start, !.goal_end = ui.end,
                                      !.goal_title = Strip(ui.title),
                                      !.goal_subtitle = Strip(ui.subtitle)]))
    ELSE Accepted(cfg)

\* _sync_config_from_ui: the mode, its fields, then the resolution
SyncConfigFromUi(cfg, ui) ==
    LET r == SyncMode([cfg EXCEPT !.mode = ui.mode], ui)
        width == SafeInt(ui.width, 1920)
        height == SafeInt(ui.height, 1080)
    IN  IF ~r.ok THEN r
        ELSE IF width < MinWidth \/ height < MinHeight
          THEN Rejected(r.config, "Minimum resolution is 800x600")
        ELSE Accepted([r.config EXCEPT !.resolution_width = Num(width),
                                       !.resolution_height = Num(height)])

\* generate_and_set, preview_wallpaper: if not self._sync_config_from_ui(): return
UiSync ==
    /\ UNCHANGED nonUiVars
    /\ uiOut.state = "entered"
    /\ LET r == SyncConfigFromUi(uiIn.config, uiIn.entries) IN
         uiOut' = [state |-> IF r.ok THEN "accepted" ELSE "rejected",
                   message |-> r.message, config |-> r.config, saved |-> FALSE]
    /\ UNCHANGED uiIn

\* generate_and_set, preview_wallpaper: self.save_config()
UiSaveConfig ==
    /\ UNCHANGED nonUiVars
    /\ uiOut.state = "accepted"
    /\ uiOut' = [uiOut EXCEPT !.state = "saved", !.saved = TRUE]
    /\ UNCHANGED uiIn

(***************************************************************************)
(* The configuration as JSON text: save_config of the GUI, load_config of  *)
(* the GUI and of the engine. A configuration maps its keys to values, an  *)
(* integer or a string of characters; the file holds, per key, the text    *)
(* json.dump writes for the value.                                         *)
(***************************************************************************)
IntV(n) == [type |-> "int", n |-> n, s |-> <<>>]

StrV(s) == [type |-> "str", n |-> 0, s |-> s]

Quote == "\""

Backslash == "\\"

\* a character outside ASCII: e with acute accent
EAcute == "U+00E9"

\* json.dump of a string, without the quotes around it (ensure_ascii is on)
RECURSIVE Escaped(_)
Escaped(s) ==
    IF s = <<>> THEN <<>>
    ELSE (IF Head(s) = Quote THEN <<Backslash, Quote>>
          ELSE IF Head(s) = Backslash THEN <<Backslash, Backslash>>
          ELSE IF Head(s) = "\n" THEN <<Backslash, "n">>
          ELSE IF Head(s) = "\t" THEN <<Backslash, "t">>
          ELSE IF Head(s) = EAcute THEN <<Backslash, "u", "0", "0", "e", "9">>
          ELSE <<Head(s)>>) \o Escaped(Tail(s))

\* json.load of the inside of a string
RECURSIVE Unescaped(_)
Unescaped(t) ==
    IF t = <<>> THEN <<>>
    ELSE IF Head(t) = Backslash /\ Len(t) >= 2
      THEN (IF t[2] = "n" THEN <<"\n">> \o Unescaped(SubSeq(t, 3, Len(t)))
            ELSE IF t[2] = "t" THEN <<"\t">> \o Unescaped(SubSeq(t, 3, Len(t)))
            ELSE IF t[2] = "u" /\ Len(t) >= 6
              THEN (IF SubSeq(t, 3, 6) = <<"0", "0", "e", "9">> THEN <<EAcute>>
                    ELSE <<"?">>) \o Unescaped(SubSeq(t, 7, Len(t)))
            ELSE <<t[2]>> \o Unescaped(SubSeq(t, 3, Len(t))))
    ELSE <<Head(t)>> \o Unescaped(Tail(t))

\* json.dump of one value: decimal digits, or the quoted and escaped string
JsonEncode(v) ==
    IF v.type = "int" THEN DecStr(v.n)
    ELSE <<Quote>> \o Escaped(v.s) \o <<Quote>>

\* json.load of one value
JsonDecode(t) ==
    IF t # <<>> /\ Head(t) = Quote
      THEN StrV(Unescaped(SubSeq(t, 2, Len(t) - 1)))
      ELSE IntV(DigitsVal(t))

NoDocument == [exists |-> FALSE, members |-> <<>>]

\* save_config: json.dump(self.config, f, indent=2)
DumpedConfig(cfg) ==
    [exists |-> TRUE, members |-> [k \in DOMAIN cfg |-> JsonEncode(cfg[k])]]

\* json.load(f)
LoadedDocument(file) == [k \in DOMAIN file.members |-> JsonDecode(file.members[k])]

\* merged.update(loaded) with the loaded values overwritten by the defaults
MergedDefaultsLast(defaults, doc) ==
    [k \in DOMAIN defaults \cup DOMAIN doc |->
        IF k \in DOMAIN defaults THEN defaults[k] ELSE doc[k]]

\* merged = defaults.copy(); merged.update(loaded)
Merged(defaults, doc) ==
    [k \in DOMAIN defaults \cup DOMAIN doc |->
        IF k \in DOMAIN doc THEN doc[k] ELSE defaults[k]]

\* _default_config of the GUI and DEFAULT_CONFIG of the engine: the same keys
\* and values
JsonDefaultConfig ==
    [config_version |-> IntV(2), mode |-> StrV(<<"l", "i", "f", "e">>), dob |-> StrV(<<>>),
     lifespan |-> IntV(90), goal_start |-> StrV(<<>>), goal_end |-> StrV(<<>>),
     goal_title |-> StrV(<<>>), goal_subtitle |-> StrV(<<>>),
     resolution_width |-> IntV(1920), resolution_height |-> IntV(1080)]

\* load_config of the GUI: the defaults when there is no file, else the
\* defaults updated with the document; an old config_version becomes 2
GuiLoadedConfig(file) ==
    LET c == IF file.exists THEN Merged(JsonDefaultConfig, LoadedDocument(file))
             ELSE JsonDefaultConfig
    IN  IF c.config_version.n < 2 THEN [c EXCEPT !.config_version = IntV(2)] ELSE c

\* load_config of the engine: DEFAULT_CONFIG updated with the document
EngineLoadedConfig(file) == Merged(JsonDefaultConfig, LoadedDocument(file))

\* save_config of the GUI, as a whole
SaveConfig ==
    /\ UNCHANGED nonUiVars
    /\ uiOut.state = "config"
    /\ uiOut' = [uiOut EXCEPT !.state = "saved", !.file = DumpedConfig(uiIn.config)]
    /\ UNCHANGED uiIn

\* load_config of the GUI, at its next start
GuiLoadConfig ==
    /\ UNCHANGED nonUiVars
    /\ uiOut.state = "saved"
    /\ ~uiOut.gui.loaded
    /\ uiOut' = [uiOut EXCEPT !.gui = [loaded |-> TRUE,
                                       config |-> GuiLoadedConfig(uiOut.file)]]
    /\ UNCHANGED uiIn

\* load_config of the engine, in WallpaperEngine.__init__
EngineLoadConfig ==
    /\ UNCHANGED nonUiVars
    /\ uiOut.state = "saved"
    /\ ~uiOut.engine.loaded
    /\ uiOut' = [uiOut EXCEPT !.engine = [loaded |-> TRUE,
                                          config |-> EngineLoadedConfig(uiOut.file)]]
    /\ UNCHANGED uiIn

(***************************************************************************)
(* Initial states and specifications.                                      *)
(***************************************************************************)
\* The marker found at the start: none, the pid of a terminated holder, the
\* empty file of a holder killed between os.open and os.write, or text that is
\* no number.
InitialMarkers ==
    {NoFile, File(0, DecStr(StalePid)), File(0, <<>>), File(0, <<"x">>)}

LockStart ==
    /\ pc = [t \in Threads |-> "idle"]
    /\ alive = [p \in Pids |-> p # StalePid]
    /\ oldPid = [t \in Threads |-> 0]
    /\ seen = [t \in Threads |-> "none"]
    /\ raced = [t \in Threads |-> FALSE]
    /\ acqErr = [t \in Threads |-> "none"]
    /\ acquired = [t \in Threads |-> FALSE]
    /\ attempts = [t \in Threads |-> 0]
    /\ genRan = [t \in Threads |-> FALSE]
    /\ applyRan = [t \in Threads |-> FALSE]
    /\ wrote = [t \in Threads |-> FALSE]
    /\ released = [t \in Threads |-> FALSE]
    /\ ret = [t \in Threads |-> "none"]

\* no run_auto is in progress and there is no marker
LockIdle == LockStart /\ sameProc = FALSE /\ lock = NoFile

SaveIdle ==
    /\ spc = [w \in Writers |-> "idle"]
    /\ tmpIno = NoIno
    /\ data = [i \in Inodes |-> IF i = FirstIno THEN FullImage(OldImage) ELSE <<>>]
    /\ fd = [w \in Writers |-> NoIno]
    /\ pos = [w \in Writers |-> 0]
    /\ destBefore = [w \in Writers |-> FileView(NoIno)]
    /\ failed = [w \in Writers |-> FALSE]
    /\ outcome = [w \in Writers |-> "none"]
    /\ observed = FileView(NoIno)

CfgStart ==
    /\ gpc = "idle"
    /\ gver = 0
    /\ gpos = 0
    /\ bakFile = NoCfgFile
    /\ rpc = "idle"
    /\ loaded = [kind |-> "none", doc |-> 0, during |-> FALSE]

CfgIdle == CfgStart /\ cfgFile = [exists |-> TRUE, bytes |-> JsonDump(0)]

\* DEFAULT_CONFIG
DefaultConfig ==
    [mode |-> "life", dob |-> <<>>, lifespan |-> Num(90),
     goal_start |-> <<>>, goal_end |-> <<>>, goal_title |-> <<>>,
     goal_subtitle |-> <<>>,
     resolution_width |-> Num(1920), resolution_height |-> Num(1080)]

NoRun ==
    [loaded |-> FALSE, locked |-> FALSE, stage |-> "none", renderer |-> FALSE,
     saved |-> FALSE, applied |-> FALSE, invoked |-> FALSE, released |-> FALSE,
     applyOk |-> "none", success |-> "none", markerTried |-> FALSE, code |-> 0,
     raised |-> "none", steps |-> <<>>, answer |-> Refused("none")]

MainIdle ==
    /\ runIn = [configFile |-> "missing", config |-> DefaultConfig, today |-> NoDate,
                system |-> "none", desktop |-> <<<<>>, <<>>>>, tools |-> {},
                spawns |-> TRUE, lockFree |-> TRUE,
                writable |-> TRUE, bytes |-> 0, wallpaper |-> NoWallpaper, tmp |-> FALSE]
    /\ mpc = "idle"
    /\ wallFile = NoWallpaper
    /\ wallTmp = FALSE
    /\ errFiles = {}
    /\ run = NoRun

GridIdle ==
    /\ gridIn = [mode |-> "none", total |-> 1, filled |-> 0,
                 width |-> 0, height |-> 0, draw |-> FALSE]
    /\ gridOut = [state |-> "none", layout |-> NoLayout, cells |-> <<>>]

UiIdle ==
    /\ uiIn = [kind |-> "none"]
    /\ uiOut = [state |-> "none"]

CalcIdle ==
    /\ calcIn = [mode |-> "none", dob |-> NoDate, lifespan |-> 0,
                 start |-> NoDate, end |-> NoDate, today |-> NoDate]
    /\ calcOut = [state |-> "none", total |-> 0, filled |-> 0]

Init ==
    /\ CfgIdle
    /\ CalcIdle
    /\ GridIdle
    /\ MainIdle
    /\ LockStart
    /\ sameProc \in BOOLEAN
    /\ lock \in InitialMarkers
    /\ SaveIdle
    /\ destIno = FirstIno
    /\ UiIdle

Next ==
    \/ \E t \in Threads : RunAuto(t)
    \/ \E t \in Threads : AcqExists(t)
    \/ \E t \in Threads : AcqRead(t)
    \/ \E t \in Threads : AcqAlive(t)
    \/ \E t \in Threads : AcqRemoveStale(t)
    \/ \E t \in Threads : AcqRemoveCorrupt(t)
    \/ \E t \in Threads : AcqCreate(t)
    \/ \E t \in Threads : AcqWrite(t)
    \/ \E t \in Threads : AcqClose(t)
    \/ \E t \in Threads : Generate(t)
    \/ \E t \in Threads : Apply(t)
    \/ \E t \in Threads : RelExists(t)
    \/ \E t \in Threads : RelRemove(t)
    \/ \E p \in Pids : Crash(p)

Spec == Init /\ [][Next]_vars

\* scheduled runs, generate_and_set and preview_wallpaper side by side
NextGui ==
    \/ Next
    \/ \E t \in Threads : PreviewWallpaper(t)
    \/ \E t \in Threads : PreviewGenerate(t)

SpecGui == Init /\ [][NextGui]_vars

\* the wallpaper file holds the previous image, or there is none yet
InitSave ==
    /\ LockIdle
    /\ CfgIdle
    /\ CalcIdle
    /\ GridIdle
    /\ MainIdle
    /\ SaveIdle
    /\ destIno \in {NoIno, FirstIno}
    /\ UiIdle

\* calls of save that follow one another
NextSave ==
    \/ \E w \in Writers : SaveOpenAlone(w)
    \/ \E w \in Writers : SaveWrite(w)
    \/ \E w \in Writers : SaveReplace(w)
    \/ \E w \in Writers : SaveVerify(w)
    \/ \E w \in Writers : SaveCleanupExists(w)
    \/ \E w \in Writers : SaveCleanupUnlink(w)
    \/ \E w \in Writers : SaveReturn(w)
    \/ ReadWallpaper

SpecSave == InitSave /\ [][NextSave]_vars

\* Calls of save that overlap: preview_wallpaper calls generate_wallpaper
\* without the lock (life_calendar_gui.py:693), in a thread of its own (:231),
\* so it runs beside a scheduled run_auto, a generate_and_set or another preview.
NextSaveConc ==
    \/ \E w \in Writers : SaveOpen(w)
    \/ \E w \in Writers : SaveWrite(w)
    \/ \E w \in Writers : SaveReplace(w)
    \/ \E w \in Writers : SaveVerify(w)
    \/ \E w \in Writers : SaveCleanupExists(w)
    \/ \E w \in Writers : SaveCleanupUnlink(w)
    \/ \E w \in Writers : SaveReturn(w)
    \/ ReadWallpaper

SpecSaveConc == InitSave /\ [][NextSaveConc]_vars

\* the GUI saves documents 1 .. MaxSaves over document 0 while the engine of a
\* scheduled run loads the file; on a first run there is no file yet
InitCfg ==
    /\ LockIdle
    /\ SaveIdle
    /\ destIno = FirstIno
    /\ CfgStart
    /\ cfgFile \in {NoCfgFile, [exists |-> TRUE, bytes |-> JsonDump(0)]}
    /\ CalcIdle
    /\ GridIdle
    /\ MainIdle
    /\ UiIdle

NextCfg ==
    \/ CfgSaveBegin
    \/ CfgBackup
    \/ CfgOpen
    \/ CfgDump
    \/ CfgClose
    \/ LoadBegin
    \/ LoadRead

SpecCfg == InitCfg /\ [][NextCfg]_vars

Years == FirstYear..(FirstYear + NYears - 1)

\* the dob of the configuration: a date, a day no month has, or nothing
DobStrings ==
    {<<y, m, d>> : y \in Years, m \in {1, 2, 12}, d \in {1, 29, 31}}
        \cup {NoDate, <<1990, 5, 15>>}

\* the start and the end of a goal
GoalStrings ==
    {<<y, m, d>> : y \in Years, m \in {1, 12}, d \in {1, 31}}
        \cup {NoDate, <<FirstYear, 2, 30>>, <<2024, 1, 1>>, <<2024, 12, 31>>}

\* the current date
Todays ==
    {<<y, m, d>> : y \in Years, m \in {1, 3, 12}, d \in {1, 28, 31}}
        \cup {<<2024, 3, 1>>, <<2024, 5, 15>>, <<2024, 7, 1>>}

\* what the engine is configured with, per mode
CalcInputs ==
    [mode : {"life"}, dob : DobStrings, lifespan : 0..(MaxLifespan + 1),
     start : {NoDate}, end : {NoDate}, today : Todays]
    \cup
    [mode : {"year"}, dob : {NoDate}, lifespan : {0},
     start : {NoDate}, end : {NoDate}, today : Todays]
    \cup
    [mode : {"goal"}, dob : {NoDate}, lifespan : {0},
     start : GoalStrings, end : GoalStrings, today : Todays]

InitCalc ==
    /\ LockIdle
    /\ SaveIdle
    /\ destIno = FirstIno
    /\ CfgIdle
    /\ GridIdle
    /\ MainIdle
    /\ calcIn \in CalcInputs
    /\ calcOut = [state |-> "none", total |-> 0, filled |-> 0]
    /\ UiIdle

NextCalc ==
    \/ CalcLife
    \/ CalcYear
    \/ CalcGoal

SpecCalc == InitCalc /\ [][NextCalc]_vars

Modes == {"life", "year", "goal"}

\* the resolutions of the configuration
Canvases == {<<MinWidth, MinHeight>>, <<1920, 1080>>, <<3840, 2160>>}

InitLayout ==
    /\ LockIdle
    /\ SaveIdle
    /\ destIno = FirstIno
    /\ CfgIdle
    /\ CalcIdle
    /\ gridIn \in {[mode |-> md, total |-> n, filled |-> 0,
                    width |-> c[1], height |-> c[2], draw |-> FALSE] :
                       md \in Modes, n \in 1..MaxUnits, c \in Canvases}
    /\ gridOut = [state |-> "none", layout |-> NoLayout, cells |-> <<>>]
    /\ MainIdle
    /\ UiIdle

NextLayout ==
    \/ LayoutGrid

SpecLayout == InitLayout /\ [][NextLayout]_vars

InitDraw ==
    /\ LockIdle
    /\ SaveIdle
    /\ destIno = FirstIno
    /\ CfgIdle
    /\ CalcIdle
    /\ gridIn \in {[mode |-> md, total |-> n, filled |-> f,
                    width |-> MinWidth, height |-> MinHeight, draw |-> TRUE] :
                       md \in Modes, n \in 0..MaxCells, f \in (-1)..(MaxCells + 1)}
    /\ gridOut = [state |-> "none", layout |-> NoLayout, cells |-> <<>>]
    /\ MainIdle
    /\ UiIdle

NextDraw ==
    \/ DrawGrid

SpecDraw == InitDraw /\ [][NextDraw]_vars

LastYear == FirstYear + NYears - 1

\* every day of the years
AllDays ==
    {<<y, mo, d>> : y \in Years, mo \in 1..12, d \in 1..31} \cap
    {day \in (Years \X (1..12) \X (1..31)) : day[3] <= DaysInMonth(day[1], day[2])}

InitYearGrid ==
    /\ LockIdle
    /\ SaveIdle
    /\ destIno = FirstIno
    /\ CfgIdle
    /\ CalcIdle
    /\ MainIdle
    /\ UiIdle
    /\ gridIn \in [mode : {"year"}, today : AllDays, width : {1920}, height : {1080}]
    /\ gridOut = [state |-> "none", layout |-> NoLayout, cells |-> <<>>]

NextYearGrid ==
    \/ DrawYearGrid

SpecYearGrid == InitYearGrid /\ [][NextYearGrid]_vars

\* the resolutions of a configuration: two that pass, and those that do not
GoodResolutions == {<<Num(1920), Num(1080)>>, <<Num(MinWidth), Num(MinHeight)>>}

BadResolutions ==
    {<<Num(MinWidth - 1), Num(MinHeight)>>, <<Num(MinWidth), Num(MinHeight - 1)>>,
     <<NotNum, Num(1080)>>}

\* dates of a configuration: none, a day no month has, an early and a late day
DateFields == {<<>>, <<FirstYear, 2, 30>>, <<FirstYear, 1, 1>>, <<LastYear, 12, 31>>}

Config(mode, dob, lifespan, start, end, title, res) ==
    [mode |-> mode, dob |-> dob, lifespan |-> lifespan,
     goal_start |-> start, goal_end |-> end, goal_title |-> title,
     goal_subtitle |-> <<>>,
     resolution_width |-> res[1], resolution_height |-> res[2]]

\* the configurations of the runs
Configs ==
    {Config("life", d, l, <<>>, <<>>, <<>>, <<Num(1920), Num(1080)>>) :
        d \in DateFields,
        l \in {Num(0), Num(1), Num(90), Num(MaxLifespan), Num(MaxLifespan + 1), NotNum}}
    \cup
    {Config("goal", <<>>, Num(90), st, en, t, <<Num(1920), Num(1080)>>) :
        st \in DateFields, en \in DateFields, t \in {<<>>, <<" ">>, <<"G">>}}
    \cup
    {Config(md, <<FirstYear, 1, 1>>, Num(90), <<FirstYear, 1, 1>>, <<LastYear, 12, 31>>,
            <<"G">>, r) :
        md \in Modes \cup {"month"}, r \in GoodResolutions \cup BadResolutions}
    \cup
    {[Config("goal", <<>>, Num(90), <<FirstYear, 1, 1>>, <<LastYear, 12, 31>>, <<"G">>,
             <<Num(1920), Num(1080)>>) EXCEPT !.goal_subtitle = sub] :
        sub \in {<<"S">>, <<" ">>}}

\* the platform of a run: the system, the desktop, and whether the command of
\* the desktop is installed
Platforms ==
    {[system |-> "Windows", desktop |-> <<<<>>, <<>>>>, tools |-> {}, spawns |-> TRUE],
     [system |-> "Darwin", desktop |-> <<<<>>, <<>>>>, tools |-> {}, spawns |-> TRUE],
     [system |-> "Linux", desktop |-> <<<<"G", "N", "O", "M", "E">>, Gnome>>,
      tools |-> {"gsettings"}, spawns |-> TRUE],
     [system |-> "Linux", desktop |-> <<<<"G", "N", "O", "M", "E">>, Gnome>>,
      tools |-> {"feh"}, spawns |-> TRUE],
     [system |-> "FreeBSD", desktop |-> <<<<>>, <<>>>>, tools |-> {}, spawns |-> TRUE]}

RunInput(cf, cfg, td, pl, free, wr, by, wp, tmp) ==
    [configFile |-> cf, config |-> cfg, today |-> td,
     system |-> pl.system, desktop |-> pl.desktop, tools |-> pl.tools,
     spawns |-> pl.spawns,
     lockFree |-> free, writable |-> wr, bytes |-> by, wallpaper |-> wp, tmp |-> tmp]

OldWallpaper == [exists |-> TRUE, bytes |-> MinWallpaperBytes + 1, content |-> "old"]

\* what a run finds: the configuration file missing, malformed, or holding one
\* of the configurations
RunInputs ==
    {RunInput(cf, DefaultConfig, <<FirstYear, 3, 1>>, pl, TRUE, wr, MinWallpaperBytes,
              OldWallpaper, FALSE) :
        cf \in {"missing", "malformed"}, pl \in Platforms, wr \in BOOLEAN}
    \cup
    {RunInput("ok", cfg, td, pl, free, TRUE, MinWallpaperBytes + 1, wp[1], wp[2]) :
        cfg \in Configs, td \in {<<FirstYear, 3, 1>>, <<LastYear, 12, 31>>},
        pl \in Platforms, free \in BOOLEAN,
        wp \in {<<NoWallpaper, FALSE>>, <<OldWallpaper, FALSE>>, <<OldWallpaper, TRUE>>}}
    \cup
    {RunInput("ok", Config("year", <<>>, Num(90), <<>>, <<>>, <<>>, <<Num(1920), Num(1080)>>),
              <<FirstYear, 3, 1>>, pl, TRUE, wr, by, OldWallpaper, tmp) :
        pl \in Platforms, wr \in BOOLEAN,
        by \in {MinWallpaperBytes, MinWallpaperBytes + 1}, tmp \in BOOLEAN}

InitMain ==
    /\ LockIdle
    /\ SaveIdle
    /\ destIno = FirstIno
    /\ CfgIdle
    /\ CalcIdle
    /\ GridIdle
    /\ runIn \in RunInputs
    /\ mpc = "main"
    /\ wallFile = runIn.wallpaper
    /\ wallTmp = runIn.tmp
    /\ errFiles \in {{}, {ConfigNotFoundFile, GenerationFailedFile}}
    /\ run = NoRun
    /\ UiIdle

NextMain ==
    \/ MainStart
    \/ MainEngine
    \/ MainAcquire
    \/ MainGenerate
    \/ MainSave
    \/ MainApply
    \/ MainRelease
    \/ MainFinish

SpecMain == InitMain /\ [][NextMain]_vars

\* what the user typed for the lifespan, the width and the height
LifespanEntries ==
    {<<>>, <<"0">>, <<"1">>, <<"9", "0">>, <<" ", "9", "0", " ">>, <<"1", "5", "0">>,
     <<"1", "5", "1">>, <<"9", ".", "5">>, <<"x">>}

WidthEntries ==
    {<<"1", "9", "2", "0">>, <<"8", "0", "0">>, <<"7", "9", "9">>, <<"w">>, <<>>}

HeightEntries == {<<"1", "0", "8", "0">>, <<"6", "0", "0">>, <<"5", "9", "9">>}

Entries(mode, dob, lifespan, title, subtitle, start, end, width, height) ==
    [mode |-> mode, dob |-> dob, lifespan |-> lifespan, title |-> title,
     subtitle |-> subtitle, start |-> start, end |-> end,
     width |-> width, height |-> height]

\* the entries of the window, per mode
UiEntries ==
    {Entries("life", d, l, <<>>, <<>>, <<>>, <<>>, w, h) :
        d \in DateFields, l \in LifespanEntries, w \in WidthEntries, h \in HeightEntries}
    \cup
    {Entries("goal", <<>>, <<>>, t, sub, st, en, <<"1", "9", "2", "0">>, h) :
        t \in {<<>>, <<" ">>, <<" ", "G">>}, sub \in {<<>>, <<"S", " ">>},
        st \in DateFields, en \in DateFields, h \in HeightEntries}
    \cup
    {Entries("year", <<>>, <<>>, <<>>, <<>>, <<>>, <<>>, w, h) :
        w \in WidthEntries, h \in HeightEntries}

InitUi ==
    /\ LockIdle
    /\ SaveIdle
    /\ destIno = FirstIno
    /\ CfgIdle
    /\ CalcIdle
    /\ GridIdle
    /\ MainIdle
    /\ uiIn \in [config : {DefaultConfig}, entries : UiEntries,
                  today : {<<FirstYear, 3, 1>>, <<LastYear, 12, 31>>}]
    /\ uiOut = [state |-> "entered", message |-> "", config |-> uiIn.config,
                saved |-> FALSE]

NextUi ==
    \/ UiSync
    \/ UiSaveConfig

SpecUi == InitUi /\ [][NextUi]_vars

\* texts of a title: empty, plain, with quotes, backslashes, line breaks,
\* digits, and a letter outside ASCII
Titles ==
    {<<>>, <<"G">>, <<"9", "0">>, <<Quote, "G", Quote>>, <<Backslash>>,
     <<Backslash, "n">>, <<"a", "\n", "b">>, <<"\t">>, <<Backslash, Quote>>,
     <<Backslash, "u", "0", "0", "e", "9">>, <<"c", "a", "f", EAcute>>}

\* configurations with every key present and a valid value
ValidJsonConfigs ==
    {[JsonDefaultConfig EXCEPT !.mode = StrV(md), !.lifespan = IntV(l),
                               !.goal_title = StrV(t), !.goal_subtitle = StrV(sub),
                               !.dob = StrV(<<"1", "9", "9", "0", "-", "0", "5", "-", "1", "5">>),
                               !.resolution_width = IntV(w)] :
        md \in {<<"l", "i", "f", "e">>, <<"g", "o", "a", "l">>},
        l \in {MinLifespan, MaxLifespan}, t \in Titles, sub \in {<<>>, <<"S">>},
        w \in {MinWidth, 2560}}

InitRoundTrip ==
    /\ LockIdle
    /\ SaveIdle
    /\ destIno = FirstIno
    /\ CfgIdle
    /\ CalcIdle
    /\ GridIdle
    /\ MainIdle
    /\ uiIn \in [config : ValidJsonConfigs]
    /\ uiOut = [state |-> "config", file |-> NoDocument,
                gui |-> [loaded |-> FALSE, config |-> JsonDefaultConfig],
                engine |-> [loaded |-> FALSE, config |-> JsonDefaultConfig]]

NextRoundTrip ==
    \/ SaveConfig
    \/ GuiLoadConfig
    \/ EngineLoadConfig

SpecRoundTrip == InitRoundTrip /\ [][NextRoundTrip]_vars

\* values of XDG_CURRENT_DESKTOP
CurrentDesktops ==
    {<<>>, <<"G", "N", "O", "M", "E">>,
     <<"u", "b", "u", "n", "t", "u", ":", "G", "N", "O", "M", "E">>,
     <<"U", "n", "i", "t", "y">>, <<"K", "D", "E">>, <<"X", "F", "C", "E">>,
     <<"M", "A", "T", "E">>, <<"X", "-", "C", "i", "n", "n", "a", "m", "o", "n">>,
     <<"i", "3">>, <<"X">>}

\* values of DESKTOP_SESSION
DesktopSessions ==
    {<<>>, Gnome, Ubuntu, Plasma, Xfce, Mate, Cinnamon, <<"i", "3">>, <<"f", "c", "e">>}

\* the commands shutil.which may find
LinuxTools == {"gsettings", "plasma-apply-wallpaperimage", "xfconf-query", "feh"}

\* the file set_wallpaper is called for: missing, or of some size
FoundWallpapers ==
    {NoWallpaper} \cup
    {[exists |-> TRUE, bytes |-> b, content |-> "old"] :
        b \in {0, MinWallpaperBytes - 1, MinWallpaperBytes, MinWallpaperBytes + 1}}

ApplyInputs ==
    {RunInput("ok", DefaultConfig, <<FirstYear, 3, 1>>,
              [system |-> sys, desktop |-> <<<<>>, <<>>>>, tools |-> {}, spawns |-> TRUE],
              TRUE, TRUE,
              wp.bytes, wp, FALSE) :
        sys \in {"Windows", "Darwin", "FreeBSD"}, wp \in FoundWallpapers}
    \cup
    {RunInput("ok", DefaultConfig, <<FirstYear, 3, 1>>,
              [system |-> "Linux", desktop |-> <<de, se>>, tools |-> tl, spawns |-> sp],
              TRUE, TRUE, wp.bytes, wp, FALSE) :
        de \in CurrentDesktops, se \in DesktopSessions, tl \in SUBSET LinuxTools,
        sp \in BOOLEAN, wp \in FoundWallpapers}

InitApply ==
    /\ LockIdle
    /\ SaveIdle
    /\ destIno = FirstIno
    /\ CfgIdle
    /\ CalcIdle
    /\ GridIdle
    /\ runIn \in ApplyInputs
    /\ mpc = "apply_alone"
    /\ wallFile = runIn.wallpaper
    /\ wallTmp = FALSE
    /\ errFiles = {}
    /\ run = NoRun
    /\ UiIdle

NextApply ==
    \/ ApplyAlone

SpecApply == InitApply /\ [][NextApply]_vars

(***************************************************************************)
(* The lock file: claims C1 to C6, under Spec.                             *)
(***************************************************************************)
\* a thread is between the return of its acquire_lock and its release_lock
InCS(t) == pc[t] \in {"generate", "apply"}

\* a marker that thread t created is present
MarkerOf(t) == lock.exists /\ lock.creator = t

ReleasePcs == {"r_exists", "r_remove", "done"}

\* C1: at most one live thread of control is at any time between a successful
\* acquire_lock and its own release_lock.
LockMutualExclusion ==
    \A t, u \in Threads : t # u => ~(InCS(t) /\ InCS(u))

\* C2: a run_auto that acquired the lock has, when it returns, executed
\* release_lock, whatever generation and apply answered; release_lock raised
\* nothing, and the marker the run wrote is gone.
GuaranteedRelease ==
    \A t \in Threads :
        pc[t] = "done" /\ acquired[t] =>
            /\ released[t]
            /\ ret[t] \in {"true", "false"}
            /\ ~MarkerOf(t)

\* a run whose generation failed has returned
GuaranteedReleaseWitness ==
    \E t \in Threads :
        pc[t] = "done" /\ acquired[t] /\ genRan[t] /\ ~applyRan[t] /\ ret[t] = "false"

\* C3: when the marker read by acquire_lock holds the pid of a running process
\* (the caller's own included), acquire_lock raises RuntimeError, run_auto goes
\* on to its exit, and no marker created by the caller exists.
AliveHolderRejected ==
    \A t \in Threads :
        seen[t] = "live" =>
            /\ acqErr[t] = "live"
            /\ ~acquired[t]
            /\ pc[t] \in ReleasePcs
            /\ ~MarkerOf(t)

\* one thread was refused by the marker of its own process, another thread or
\* the same by the marker of a running process
AliveHolderRejectedWitness ==
    \E t \in Threads :
        seen[t] = "live" /\ oldPid[t] = PidOf(t) /\ pc[t] = "done"

CorruptReclaimed ==
    \A t \in Threads :
        seen[t] = "corrupt" =>
            /\ acqErr[t] = "none"
            /\ pc[t] \in {"a_rmcorrupt", "a_create", "a_write", "a_close"}
            /\ ~raced[t] =>
                 /\ (pc[t] = "a_rmcorrupt" => lock.exists)
                 /\ (pc[t] = "a_create" => ~lock.exists)
                 /\ (pc[t] = "a_write" => lock = File(t, <<>>))
                 /\ (pc[t] = "a_close" => lock = OwnMarker(t))

CorruptReclaimedWitness ==
    \E t \in Threads :
        seen[t] = "corrupt" /\ ~raced[t] /\ pc[t] = "a_close" /\ lock = OwnMarker(t)

\* C6: a run_auto whose acquire_lock found the lock held by a running process
\* (or lost the exclusive create) has called acquire_lock once, answers False,
\* and has neither generated, written nor applied a wallpaper.
ContentionNoWork ==
    \A t \in Threads :
        seen[t] = "live" \/ acqErr[t] # "none" =>
            /\ attempts[t] = 1
            /\ ret[t] = "false"
            /\ ~genRan[t] /\ ~wrote[t] /\ ~applyRan[t]
            /\ pc[t] \in ReleasePcs

\* a run refused by the marker of another, running process has returned
ContentionNoWorkWitness ==
    \E t \in Threads :
        /\ seen[t] = "live" /\ oldPid[t] # PidOf(t)
        /\ pc[t] = "done" /\ ret[t] = "false"

(***************************************************************************)
(* The wallpaper image file: claims C7 and C8.                             *)
(***************************************************************************)
\* a whole image: every chunk present, all of one image
Complete(bytes) ==
    /\ Len(bytes) = NChunks
    /\ \E v \in 0..NWriters : \A k \in 1..NChunks : bytes[k] = v

\* C7 (under SpecSave, calls of save that do not overlap): when a step of save
\* failed (opening or writing the temp file, or the rename), save ends by
\* raising, the destination file is as it was when save was called, and the
\* temp file does not exist.
AtomicSaveOnFailure ==
    \A w \in Writers :
        spc[w] = "end" /\ failed[w] =>
            /\ outcome[w] = "raised"
            /\ FileView(destIno) = destBefore[w]
            /\ tmpIno = NoIno

\* a save that failed in the middle of writing, over an existing image
AtomicSaveOnFailureWitness ==
    \E w \in Writers :
        /\ spc[w] = "end" /\ failed[w]
        /\ pos[w] > 0 /\ pos[w] < NChunks
        /\ destBefore[w].exists

\* C8 (under SpecSaveConc, calls of save that overlap): the wallpaper file, and
\* what a reader reads from it, is always a whole image.
NoPartialWallpaper ==
    /\ destIno # NoIno => Complete(data[destIno])
    /\ observed.exists => Complete(observed.bytes)

(***************************************************************************)
(* The configuration file: claim C9, under SpecCfg.                        *)
(***************************************************************************)
\* C9: a load_config that runs while save_config is running finds a whole
\* document (or, before the first save, no file), never an empty or partly
\* written one.
ConfigReadIsWhole == loaded.during => loaded.kind # "invalid"

(***************************************************************************)
(* The calendar calculations: claim C10, under SpecCalc.                   *)
(***************************************************************************)
\* C10: for a dob that parses and is not after today, and a lifespan in
\* [1,150], calculate answers totalUnits = floor(lifespan * 365.2425 / 7) and
\* filledUnits = min(floor((today - dob) / 7), totalUnits), so that
\* 0 <= filledUnits <= totalUnits and totalUnits > 0.
LifeUnits ==
    LET in == calcIn IN
    /\ in.mode = "life"
    /\ calcOut.state # "none"
    /\ SafeDate(in.dob) # NoDate
    /\ ToOrdinal(in.dob) <= ToOrdinal(in.today)
    /\ in.lifespan \in MinLifespan..MaxLifespan
    => /\ calcOut.state = "done"
       /\ calcOut.total = (in.lifespan * DaysPerYear10k) \div (DaysPerWeek * TenThousand)
       /\ calcOut.filled =
            Min((ToOrdinal(in.today) - ToOrdinal(in.dob)) \div DaysPerWeek, calcOut.total)
       /\ 0 <= calcOut.filled /\ calcOut.filled <= calcOut.total
       /\ calcOut.total > 0

\* a life of one year, lived for longer: the weeks lived are cut to the total
LifeUnitsWitness ==
    /\ calcIn.mode = "life"
    /\ calcOut.state = "done"
    /\ calcIn.lifespan = MinLifespan
    /\ ToOrdinal(calcIn.today) - ToOrdinal(calcIn.dob) > 366
    /\ calcOut.filled = calcOut.total

\* C11 as stated: a life of 90 years has 4698 weeks.
LifeOfNinetyYears4698 ==
    calcIn.mode = "life" /\ calcIn.lifespan = 90 /\ calcOut.state = "done"
        => calcOut.total = 4698

\* C11: a life of 90 years has floor(90 * 365.2425 / 7) weeks, which is 4695.
LifeOfNinetyYears ==
    calcIn.mode = "life" /\ calcIn.lifespan = 90 /\ calcOut.state = "done"
        => /\ calcOut.total = 4695
           /\ calcOut.total * 7 * 10000 <= 90 * 3652425
           /\ 90 * 3652425 < (calcOut.total + 1) * 7 * 10000

\* the scenario: dob 1990-05-15, lifespan 90, today 2024-05-15
LifeOfNinetyYearsWitness ==
    /\ calcIn.mode = "life"
    /\ calcIn.dob = <<1990, 5, 15>>
    /\ calcIn.lifespan = 90
    /\ calcIn.today = <<2024, 5, 15>>
    /\ calcOut.state = "done"
    /\ calcOut.filled = 12419 \div 7

\* a date is before another, by year, month and day
Before(a, b) ==
    \/ a[1] < b[1]
    \/ a[1] = b[1] /\ a[2] < b[2]
    \/ a[1] = b[1] /\ a[2] = b[2] /\ a[3] < b[3]

\* C12: in year mode totalUnits is 366 in a leap year and 365 otherwise,
\* filledUnits is the number of the day in the year, from 1 to totalUnits, and
\* is totalUnits on December 31; on 2024-03-01 they are 366 and 61.
YearUnits ==
    LET y == calcIn.today[1] IN
    calcIn.mode = "year" /\ calcOut.state # "none" =>
        /\ calcOut.state = "done"
        /\ calcOut.total = IF y % 4 = 0 /\ (y % 100 # 0 \/ y % 400 = 0) THEN 366 ELSE 365
        /\ calcOut.filled = ToOrdinal(calcIn.today) - ToOrdinal(<<y, 1, 1>>) + 1
        /\ calcOut.filled \in 1..calcOut.total
        /\ (calcIn.today[2] = 1 /\ calcIn.today[3] = 1 => calcOut.filled = 1)
        /\ (calcIn.today[2] = 12 /\ calcIn.today[3] = 31 <=> calcOut.filled = calcOut.total)
        /\ (calcIn.today = <<2024, 3, 1>> => calcOut.total = 366 /\ calcOut.filled = 61)

\* December 31 of a leap year
YearUnitsWitness ==
    /\ calcIn.mode = "year"
    /\ calcIn.today = <<2024, 12, 31>>
    /\ calcOut.state = "done"
    /\ calcOut.filled = 366

\* C13: in goal mode with start < end, totalUnits is the days from start to
\* end, and filledUnits is 0 before the start, totalUnits after the end and
\* the days since the start in between; start 2024-01-01, end 2024-12-31,
\* today 2024-07-01 give 365 and 182. With end <= start the construction
\* fails with ValueError.
GoalUnits ==
    LET st == calcIn.start
        en == calcIn.end
        td == calcIn.today
    IN
    /\ calcIn.mode = "goal"
    /\ calcOut.state # "none"
    /\ SafeDate(st) # NoDate
    /\ SafeDate(en) # NoDate
    => IF Before(st, en)
         THEN /\ calcOut.state = "done"
              /\ calcOut.total = ToOrdinal(en) - ToOrdinal(st)
              /\ calcOut.total > 0
              /\ (Before(td, st) => calcOut.filled = 0)
              /\ (Before(en, td) => calcOut.filled = calcOut.total)
              /\ (~Before(td, st) /\ ~Before(en, td) =>
                    calcOut.filled = ToOrdinal(td) - ToOrdinal(st))
              /\ (st = <<2024, 1, 1>> /\ en = <<2024, 12, 31>> /\ td = <<2024, 7, 1>> =>
                    calcOut.total = 365 /\ calcOut.filled = 182)
         ELSE calcOut.state = "ValueError"

\* a goal that ended before today
GoalUnitsWitness ==
    /\ calcIn.mode = "goal"
    /\ calcOut.state = "done"
    /\ Before(calcIn.end, calcIn.today)
    /\ calcOut.filled = calcOut.total
    /\ calcOut.total > 0

(***************************************************************************)
(* The grid: claims C14 and C15 under SpecLayout, C16 under SpecDraw.      *)
(***************************************************************************)
\* C14: for every mode, totalUnits >= 1 and canvas of at least 800x600, the
\* layout has cell_size >= 1 and gap >= 2, grid_width is at most 90% of the
\* canvas width and grid_height at most 75% of the canvas height.
GridFits ==
    gridOut.state = "laid" /\ gridIn.total >= 1
        /\ gridIn.width >= MinWidth /\ gridIn.height >= MinHeight
    => LET l == gridOut.layout IN
       /\ l.cell_size >= 1
       /\ l.gap >= 2
       /\ l.grid_width = l.columns * l.cell_size + (l.columns - 1) * l.gap
       /\ l.grid_height = l.rows * l.cell_size + (l.rows - 1) * l.gap
       /\ 10 * l.grid_width <= 9 * gridIn.width
       /\ 4 * l.grid_height <= 3 * gridIn.height

\* the units a configuration that passes validate_config leads to
ValidUnits(mode, total) ==
    \/ mode = "life" /\ \E y \in MinLifespan..MaxLifespan : total = TotalWeeks(y)
    \/ mode = "year" /\ total \in {YearDays, LeapYearDays}
    \/ mode = "goal" /\ total >= 1

\* C15: for a valid configuration the title (start_y - 110) is on the canvas,
\* every cell lies within [0, height], and the legend row
\* (start_y + grid_height + 50, 15 px tall) ends on the canvas.
HeaderAndLegendRoom ==
    gridOut.state = "laid" /\ ValidUnits(gridIn.mode, gridIn.total)
    => LET l == gridOut.layout
           last == CellPosition(l, l.total_units - 1)
       IN
       /\ l.start_y - 110 >= 0
       /\ l.start_y >= 0
       /\ last.y + l.cell_size <= gridIn.height
       /\ l.start_y + l.grid_height + 50 + 15 <= gridIn.height

\* C16: draw_grid draws one cell per index in [0, totalUnits); a cell is
\* completed iff index < filledUnits, current iff index = filledUnits and
\* filledUnits < totalUnits, and future otherwise; for 0 <= filledUnits <=
\* totalUnits there are filledUnits completed cells and at most one current
\* cell, none when filledUnits = totalUnits.
GridColouring ==
    gridOut.state = "drawn" =>
        LET n == gridIn.total
            f == gridIn.filled
            cells == gridOut.cells
            Of(colour) == {i \in DOMAIN cells : cells[i].colour = colour}
        IN
        /\ DOMAIN cells = 0..(n - 1)
        /\ Of("completed") = {i \in 0..(n - 1) : i < f}
        /\ Of("current") = {i \in 0..(n - 1) : i = f /\ f < n}
        /\ Of("future") = (0..(n - 1)) \ (Of("completed") \cup Of("current"))
        /\ (0 <= f /\ f <= n =>
              /\ Cardinality(Of("completed")) = f
              /\ Cardinality(Of("current")) <= 1
              /\ (f = n => Of("current") = {}))

\* a grid with completed cells, the current cell and future cells
GridColouringWitness ==
    /\ gridOut.state = "drawn"
    /\ gridIn.total = MaxCells
    /\ gridIn.filled = 3
    /\ gridOut.cells[2].colour = "completed"
    /\ gridOut.cells[3].colour = "current"
    /\ gridOut.cells[4].colour = "future"

(***************************************************************************)
(* One unattended run: claims C17, C18 and C19 under SpecMain, C20 under   *)
(* SpecApply.                                                              *)
(***************************************************************************)
\* a configuration with a field that validation refuses, or an unknown mode
InvalidConfig(cfg) ==
    \/ ~cfg.resolution_width.num
    \/ ~cfg.resolution_height.num
    \/ cfg.resolution_width.val < 800
    \/ cfg.resolution_height.val < 600
    \/ /\ cfg.mode = "life"
       /\ \/ SafeDate(cfg.dob) = NoDate
          \/ ~cfg.lifespan.num
          \/ cfg.lifespan.val < 1
          \/ cfg.lifespan.val > 150
    \/ /\ cfg.mode = "goal"
       /\ \/ SafeDate(cfg.goal_start) = NoDate
          \/ SafeDate(cfg.goal_end) = NoDate
          \/ ~Before(cfg.goal_start, cfg.goal_end)
          \/ \A k \in DOMAIN cfg.goal_title : cfg.goal_title[k] = " "
    \/ cfg.mode \notin {"life", "year", "goal"}

\* C17: with an invalid configuration generate_wallpaper answers failure
\* without constructing a renderer, the wallpaper file and its temporary file
\* are as they were, and run_auto does not apply a wallpaper.
InvalidConfigAborts ==
    run.stage # "none" /\ InvalidConfig(runIn.config) =>
        /\ run.stage \in {"validate", "data"}
        /\ ~run.renderer
        /\ ~run.saved
        /\ wallFile = runIn.wallpaper
        /\ wallTmp = runIn.tmp
        /\ ~run.applied
        /\ ~run.invoked
        /\ run.success = "false"
        /\ (mpc = "exit" => run.code = 1)

\* a goal without a title, with the old wallpaper and a temporary file left
InvalidConfigAbortsWitness ==
    /\ mpc = "exit"
    /\ runIn.config.mode = "goal"
    /\ runIn.config.goal_title = <<" ">>
    /\ SafeDate(runIn.config.goal_start) # NoDate
    /\ SafeDate(runIn.config.goal_end) # NoDate
    /\ Before(runIn.config.goal_start, runIn.config.goal_end)
    /\ run.stage = "validate"
    /\ wallFile = OldWallpaper
    /\ wallTmp = TRUE

\* C18: when generation succeeded and set_wallpaper answers failure, run_auto
\* returns False and the wallpaper file written by the run is present with
\* the new image.
ApplyFailureKeepsFile ==
    run.saved /\ run.applyOk = "false" =>
        /\ run.success = "false"
        /\ wallFile.exists
        /\ wallFile.content = "new"
        /\ (mpc = "exit" => run.code = 1)

\* the OS mechanism was invoked and failed, over an old wallpaper
ApplyFailureKeepsFileWitness ==
    /\ mpc = "exit"
    /\ run.saved
    /\ run.invoked
    /\ run.applyOk = "false"
    /\ runIn.wallpaper = OldWallpaper
    /\ wallFile.content = "new"

\* C19: main returns 0 exactly when the config file exists and loads and
\* run_auto returns True, and 1 for a missing or malformed config, a
\* validation error, a generation error, lock contention and an apply failure;
\* for a missing config it writes ERROR_CONFIG_NOT_FOUND.txt (which is then
\* present, unless the write itself is refused).
ExitCodes ==
    mpc = "exit" =>
        /\ run.code \in {0, 1}
        /\ run.code = 0 <=>
              /\ runIn.configFile = "ok"
              /\ run.loaded
              /\ run.success = "true"
        /\ run.code = 0 =>
              /\ runIn.lockFree
              /\ ~InvalidConfig(runIn.config)
              /\ run.saved
              /\ wallFile.content = "new"
              /\ run.applyOk = "true"
        /\ (\/ runIn.configFile \in {"missing", "malformed"}
            \/ ~runIn.lockFree
            \/ InvalidConfig(runIn.config)
            \/ run.stage \in {"validate", "data", "save"}
            \/ run.applyOk = "false") => run.code = 1
        /\ runIn.configFile = "missing" =>
              /\ run.markerTried
              /\ ~run.loaded
              /\ (runIn.writable => ConfigNotFoundFile \in errFiles)

\* the config file is missing and the marker file has been written
ExitCodesWitness ==
    /\ mpc = "exit"
    /\ runIn.configFile = "missing"
    /\ errFiles = {ConfigNotFoundFile}
    /\ run.code = 1

\* C20: on every platform branch set_wallpaper checks that the file exists and
\* has at least the minimum size before it invokes an OS mechanism or tool,
\* and answers failure without invoking it otherwise.
PreApplyValidation ==
    run.applied /\ (~wallFile.exists \/ wallFile.bytes < 1000) =>
        /\ ~run.invoked
        /\ run.applyOk = "false"

(***************************************************************************)
(* The lock file again: claims C23 and C26, under Spec.                    *)
(***************************************************************************)
\* a thread has returned from a successful acquire_lock and has not yet
\* finished its release_lock
Holds(t) == acquired[t] /\ pc[t] \in {"generate", "apply", "r_exists", "r_remove"}

\* C23: in every reachable state, a marker that exists holds the decimal pid
\* of a process that holds the lock at that moment, and when no marker exists
\* no process holds the lock.
MarkerContentInvariant ==
    /\ lock.exists =>
         \E t \in Threads : Holds(t) /\ lock.content = DecStr(PidOf(t))
    /\ ~lock.exists => \A t \in Threads : ~Holds(t)

\* C26: the release_lock of a run_auto whose acquire_lock raised removes no
\* marker: the step leaves the lock file as it found it.
FailedAcquireLeavesMarker ==
    [][\A t \in Threads :
         (acqErr[t] # "none" /\ ~acquired[t] /\ pc[t] = "r_remove" /\ pc'[t] = "done")
            => lock' = lock]_vars

(***************************************************************************)
(* The engine as its callers see it: claims C22 and C24, under SpecMain.   *)
(***************************************************************************)
\* C22: no exception leaves the engine module; its caller receives
\* a boolean only, True exactly when the image was generated and applied.
NoExceptionEscapes ==
    /\ run.raised = "none"
    /\ run.released =>
         /\ run.success \in {"true", "false"}
         /\ run.success = "true" <=> (run.saved /\ run.applyOk = "true")

\* What does hold: run_auto lets no exception out and returns a boolean, True
\* exactly when the image was saved and applied; the only exception that
\* reaches the caller of the engine is the one load_config raises in the
\* constructor, before run_auto is called, and main answers it with exit
\* code 1.
RunAutoReturnsBoolean ==
    /\ run.raised # "none" =>
         /\ run.raised \in {"ValueError", "FileNotFoundError"}
         /\ ~run.loaded /\ run.steps = <<"load">> /\ run.success = "none"
         /\ mpc = "exit" /\ run.code = ExitCode(FALSE)
    /\ run.released =>
         /\ run.success \in {"true", "false"}
         /\ run.success = "true" <=> (run.saved /\ run.applyOk = "true")

\* acquire_lock raised RuntimeError inside run_auto, and run_auto returned False
RunAutoReturnsBooleanWitness ==
    /\ run.loaded /\ ~run.locked /\ run.released
    /\ run.success = "false" /\ run.raised = "none" /\ mpc = "exit"

\* the order of the steps as the engine's contract lists them
ListedOrder(cfg) ==
    <<"acquire", "load", "validate", "data", "layout", "title">>
    \o (IF Subtitle(cfg) # <<>> THEN <<"subtitle", "stats">> ELSE <<"stats">>)
    \o <<"grid", "legend", "save", "apply">>

IsPrefix(a, b) == Len(a) <= Len(b) /\ SubSeq(b, 1, Len(a)) = a

BeforeRelease(steps) ==
    IF steps # <<>> /\ steps[Len(steps)] = "release"
      THEN SubSeq(steps, 1, Len(steps) - 1)
      ELSE steps

\* C24: the steps of a run start in the listed order (acquire lock, load the
\* configuration, validate, data, layout, title, subtitle when not empty,
\* stats, grid, legend, save, apply), a step starting only after all the
\* earlier ones; release comes last, whatever happened.
EngineStepOrder ==
    /\ IsPrefix(BeforeRelease(run.steps), ListedOrder(runIn.config))
    /\ \A i \in 1..Len(run.steps) : run.steps[i] = "release" => i = Len(run.steps)

(***************************************************************************)
(* The Linux branch of set_wallpaper: claim C25, under SpecApply.          *)
(***************************************************************************)
\* the desktops in their rank order, each with the words that name it
DesktopRanks ==
    <<[branch |-> "gnome", words |-> {Gnome, Ubuntu, Unity}],
      [branch |-> "kde", words |-> {Kde, Plasma}],
      [branch |-> "xfce", words |-> {Xfce}],
      [branch |-> "mate", words |-> {Mate}],
      [branch |-> "cinnamon", words |-> {Cinnamon}]>>

Named(env, k) == \E w \in DesktopRanks[k].words : Contains(env, w)

\* the first desktop of the rank order that the environment names, else feh
FirstRanked(env) ==
    IF \E k \in 1..Len(DesktopRanks) : Named(env, k)
      THEN DesktopRanks[CHOOSE k \in 1..Len(DesktopRanks) :
                          Named(env, k) /\ \A j \in 1..(k - 1) : ~Named(env, j)].branch
      ELSE "feh"

\* C25: _set_linux_wallpaper takes the branch of the first desktop in the rank
\* order gnome/ubuntu/unity, kde/plasma, xfce, mate, cinnamon that the two
\* environment variables name, else feh; when the command of that branch is
\* not installed it answers a failure that names the command and runs
\* nothing; it runs no command of another branch; it raises nothing.
LinuxDispatch ==
    run.applied /\ runIn.system = "Linux" =>
        LET env == DesktopEnv(runIn.desktop[1], runIn.desktop[2])
            a == run.answer
        IN  /\ a.branch = FirstRanked(env)
            /\ BranchTool(a.branch) \notin runIn.tools =>
                 /\ ~a.ok /\ ~a.invoked /\ a.ran = <<>>
                 /\ \E i \in 1..Len(a.message) : a.message[i] = BranchTool(a.branch)
            /\ \A i \in 1..Len(a.ran) : a.ran[i] = BranchTool(a.branch)
            /\ a.raised = "none"
            /\ run.applyOk = (IF a.ok THEN "true" ELSE "false")

\* a KDE desktop with a GNOME session and no gsettings: the GNOME branch
\* answered, though the commands of KDE and of the fallback are installed
LinuxDispatchWitness ==
    /\ run.applied /\ runIn.system = "Linux"
    /\ runIn.desktop = <<<<"K", "D", "E">>, Gnome>>
    /\ runIn.tools = {"plasma-apply-wallpaperimage", "feh"}
    /\ run.answer.branch = "gnome" /\ run.answer.ran = <<>> /\ run.applyOk = "false"

(***************************************************************************)
(* Who writes the image: claim C27, under SpecGui.                         *)
(***************************************************************************)
\* a thread is inside generate_wallpaper, which ends with renderer.save
InGenerate(t) == pc[t] \in {"generate", "preview"}

\* C27: a thread that is inside generate_wallpaper, and so writes the
\* temporary file and the wallpaper file, has acquired the lock and not yet
\* released it, on every path that leads there.
SaveOnlyUnderLock ==
    \A t \in Threads : InGenerate(t) => acquired[t] /\ ~released[t]

(***************************************************************************)
(* The GUI and the engine on the same configuration: claim C28, under      *)
(* SpecUi.                                                                 *)
(***************************************************************************)
\* C28: a configuration that _sync_config_from_ui accepted and save_config
\* persisted passes validate_config on the same date, in every mode.
UiRefinesEngine ==
    uiOut.state = "saved" => ValidateConfig(uiOut.config, uiIn.today) = "ok"

(***************************************************************************)
(* The configuration through its file: claim C21, under SpecRoundTrip.     *)
(***************************************************************************)
\* C21: a valid configuration that save_config wrote is, when load_config
\* reads the file, the same configuration again: in the GUI and in the
\* engine.
ConfigRoundTrip ==
    /\ uiOut.gui.loaded => uiOut.gui.config = uiIn.config
    /\ uiOut.engine.loaded => uiOut.engine.config = uiIn.config

\* both have loaded a goal whose title holds a backslash and a quote
ConfigRoundTripWitness ==
    /\ uiOut.gui.loaded /\ uiOut.engine.loaded
    /\ uiIn.config.goal_title = StrV(<<Backslash, Quote>>)
    /\ uiIn.config.lifespan = IntV(MaxLifespan)
    /\ uiOut.file.members.goal_title = <<Quote, Backslash, Backslash, Backslash, Quote, Quote>>

(***************************************************************************)
(* Validation and the data layer: claim C29, under SpecCalc.               *)
(***************************************************************************)
\* the configuration generate_wallpaper builds the data object from
ConfigOf(in) ==
    Config(in.mode, in.dob, Num(in.lifespan), in.start, in.end, <<"G">>,
           <<Num(1920), Num(1080)>>)

\* C29: for a configuration that passes validate_config on the current date,
\* the data object is constructed without an exception and calculate answers
\* at least one unit in all and a filled count from 0 to that total.
ValidatedPipeline ==
    (calcOut.state # "none" /\ ValidateConfig(ConfigOf(calcIn), calcIn.today) = "ok") =>
        /\ calcOut.state = "done"
        /\ calcOut.total >= 1
        /\ 0 <= calcOut.filled /\ calcOut.filled <= calcOut.total

\* a validated life of one year, lived to its end: every week is filled
ValidatedPipelineWitness ==
    /\ calcIn.mode = "life" /\ calcIn.lifespan = MinLifespan
    /\ ValidateConfig(ConfigOf(calcIn), calcIn.today) = "ok"
    /\ calcOut.state = "done" /\ calcOut.filled = calcOut.total

(***************************************************************************)
(* The grid of the year: claim C30, under SpecYearGrid.                    *)
(***************************************************************************)
\* C30: on every day of the year the grid has exactly one cell in the current
\* colour, the cell of today (index day of the year - 1); the cells of the
\* earlier days are completed and those of the later days are future.
YearCurrentCell ==
    gridOut.state = "drawn" =>
        LET today == gridIn.today
            k == ToOrdinal(today) - ToOrdinal(<<today[1], 1, 1>>)
            cells == gridOut.cells
        IN  /\ DOMAIN cells = 0..(YearTotalDays(today[1]) - 1)
            /\ \A i \in DOMAIN cells :
                 cells[i].colour = (IF i < k THEN "completed"
                                    ELSE IF i = k THEN "current"
                                    ELSE "future")

====
